---- MODULE Spec2Model ----
(***************************************************************************)
(* The audio capture session manager of the extension's background script *)
(* (src/src/background/background.ts) as a state machine.                  *)
(*                                                                         *)
(* The script runs on one event loop.  Every handler below is one atomic   *)
(* step: the synchronous part of a listener or callback, up to its next    *)
(* suspension point (a storage callback, a promise of the host, a timer,   *)
(* a recorder event).  What is suspended is kept in three places:          *)
(*   storageQ   callbacks of chrome.storage.local.get, delivered in the    *)
(*              order the reads were issued;                               *)
(*   hostTasks  promises and timers of the host that complete in any       *)
(*              order (getUserMedia, Blob.arrayBuffer, setTimeout,         *)
(*              tabCapture.getMediaStreamId, tabs.query);                  *)
(*   recorders[r].events  the events a MediaRecorder has queued.           *)
(* chrome.storage.local applies set/remove/get in the order they are       *)
(* issued, so a write takes effect at the step that issues it and a read   *)
(* carries the value the store held when it was issued.                    *)
(***************************************************************************)
EXTENDS Integers, Sequences, FiniteSets, TLC

\* Number of external events (commands, process restarts) in one behaviour.
MaxCmds == 3
\* Number of non-empty data payloads the recorders deliver in one behaviour.
MaxData == 2
\* Number of startCapture commands in one behaviour of the acquirer.
MaxAcquires == 2

CmdIds == 1..MaxCmds

\* An optional value: None is JavaScript's undefined/null, Some(v) a value.
None == <<>>
Some(v) == <<v>>

\* Payloads of a recorder's dataavailable event (event.data as bytes).
DataPayloads == {<<>>, <<2>>, <<1>>}
\* message.chunk of addRecordingChunk: absent, or an array of numbers.
MessageChunks == {None, Some(<<>>), Some(<<258, 1>>)}
\* preferences.format values the store may hold (None: no preferences).
FormatInputs == {None, Some("ogg")}
\* message.tabId and sender.tab?.id of startCapture, tabs[0]?.id of tabs.query.
TabIdInputs == {None, Some(0), Some(42)}
SenderTabInputs == {None, Some(7)}
\* chrome.runtime.lastError.message values of tabCapture.getMediaStreamId.
ErrorMessages ==
    {"Cannot capture a tab with an active stream.",
     "Tab has an active stream",
     "Extension has not been invoked for the current page"}
\* The stream id the host grants to command c at its attempt k.
TokenNames ==
    << <<"abc", "a2">>, <<"b1", "b2">>, <<"c1", "c2">>, <<"d1", "d2">>, <<"e1", "e2">> >>
GrantedToken(c, k) == TokenNames[c][k]

(***************************************************************************)
(* Pure helpers                                                            *)
(***************************************************************************)

\* new Uint8Array(array): every element is taken modulo 256.
NewUint8Array(arr) == [i \in 1..Len(arr) |-> arr[i] % 256]

\* new Blob([new Uint8Array(chunk)], {type}).
NewBlob(bytes, type) == [bytes |-> bytes, type |-> type]

RECURSIVE ConcatBytes(_)
\* The bytes of new Blob(parts): the parts' bytes, in the order of the array.
ConcatBytes(parts) ==
    IF parts = <<>> THEN <<>> ELSE Head(parts).bytes \o ConcatBytes(Tail(parts))

\* new Blob(recordingChunks, {type: mimeType}).
BlobFromChunks(chunks, type) == NewBlob(ConcatBytes(chunks), type)

\* prefsResult.preferences?.format || 'webm'
FormatOf(prefs) == IF prefs = None THEN "webm" ELSE prefs[1]

\* The format -> MIME type mapping used at start, stop and getRecordingData.
MimeTypeFor(format) == IF format = "ogg" THEN "audio/ogg" ELSE "audio/webm"

\* recordingChunks.map(chunk => Array.from(new Uint8Array(await chunk.arrayBuffer())))
ChunksArray(chunks) == [i \in 1..Len(chunks) |-> chunks[i].bytes]

\* A restore that reverses the stored list (used to test C7).
RestoreChunksReversed(stored) ==
    [i \in 1..Len(stored) |->
        NewBlob(NewUint8Array(stored[Len(stored) + 1 - i]), "audio/webm")]

\* onStartup: result.recordingChunks.map(chunk => new Blob([new Uint8Array(chunk)], {type: 'audio/webm'}))
RestoreChunks(stored) ==
    [i \in 1..Len(stored) |-> NewBlob(NewUint8Array(stored[i]), "audio/webm")]

(***************************************************************************)
(* State                                                                   *)
(***************************************************************************)
VARIABLES
    isRecording,      \* let isRecording
    recordingChunks,  \* let recordingChunks: Blob[]
    mediaRecorder,    \* let mediaRecorder: 0 is null, else the recorder's id
    currentStream,    \* let currentStream: 0 is null, else the stream's id
    recorders,        \* the MediaRecorder objects created so far, each with the
                      \* payloads it has delivered
    streams,          \* the MediaStream objects: "none", "live" or "ended"
    storage,          \* chrome.storage.local
    storageQ,         \* pending chrome.storage.local.get callbacks, in order
    hostTasks,        \* pending promises and timers of the host
    resp,             \* per command: what was asked and what was answered
    acq,              \* per startCapture command: negotiation bookkeeping
    nCmds,            \* external events so far
    nData,            \* non-empty data payloads delivered so far
    appendLog,        \* history: bytes of each chunk appended since the last reset
    wav,              \* the format conversion in progress: its input and its output
    mig               \* the migration of the legacy recordings to IndexedDB

vars == <<isRecording, recordingChunks, mediaRecorder, currentStream, recorders,
          streams, storage, storageQ, hostTasks, resp, acq, nCmds, nData, appendLog,
          wav, mig>>

session == <<isRecording, recordingChunks, mediaRecorder, currentStream, recorders,
             streams>>

\* A recorder that does not exist (yet).
NoRecorder ==
    [state |-> "none", onstop |-> <<>>, events |-> <<>>, mime |-> "", delivered |-> <<>>]

\* chrome.storage.local with no key set except, possibly, the preferences.
EmptyStorage(prefs) ==
    [recordingStreamId |-> None, recordingTabId |-> None,
     recordingStartTime |-> None, recordingChunks |-> None, preferences |-> prefs]

\* chrome.storage.local.remove(['recordingStreamId', 'recordingTabId',
\*                              'recordingStartTime', 'recordingChunks'])
RemoveRecordingKeys(st) == EmptyStorage(st.preferences)

\* What chrome.storage.local.get(keys) hands to its callback.
StorageGet(st, keys) ==
    [k \in DOMAIN st |-> IF k \in keys THEN st[k] ELSE None]

\* A command slot nobody has used yet, and the shape of every answer.  The
\* last two fields are bookkeeping: the recorder that was Capturing, and for
\* getRecordingState the value of isRecording, when the command arrived.
NoResp ==
    [action |-> "", st |-> "unused", error |-> "", audio |-> None,
     hasData |-> "absent", isRecording |-> "absent", hasRecording |-> "absent",
     streamId |-> None, method |-> "", arg |-> None, during |-> 0, flag |-> FALSE]

\* A command that has arrived with input arg and is not answered yet.
Pending(action, arg) ==
    [NoResp EXCEPT !.action = action, !.arg = arg, !.st = "pending"]

\* sendResponse({success: true}) and sendResponse({success: false, error}).
Success(r) == [r EXCEPT !.st = "ok"]
Failure(r, msg) == [r EXCEPT !.st = "error", !.error = msg]

\* Bookkeeping of one captureTabAudio invocation: the tab it was called for,
\* the number of chrome.tabCapture.getMediaStreamId calls it has made, and
\* what the host answered to each ("" for a granted stream id).
NoAcq == [tab |-> 0, calls |-> 0, outcomes |-> <<>>]

\* A pending chrome.storage.local.get callback.
StorageTask(kind, c, below, read) ==
    [kind |-> kind, cmd |-> c, below |-> below, read |-> read]

\* A pending promise or timer of the host.  Two promises the script has
\* started for equal data are two promises: copy tells them apart.
HostTask(kind, c, data) == [kind |-> kind, cmd |-> c, data |-> data, copy |-> 1]

\* The pending tasks that differ from t in nothing but copy.
Copies(tasks, t) ==
    {u \in tasks : u.kind = t.kind /\ u.cmd = t.cmd /\ u.data = t.data}

\* The host starts task t: one more pending task, whatever is pending.
StartTask(tasks, t) ==
    tasks \cup {[t EXCEPT !.copy = Cardinality(Copies(tasks, t)) + 1]}

\* One of the pending copies of t completes.
SettleTask(tasks, t) ==
    tasks \ {[t EXCEPT !.copy = Cardinality(Copies(tasks, t))]}

\* No conversion has been asked for.
NoWav == [phase |-> "idle", by |-> "", input |-> <<>>, out |-> <<>>]

\* Number of legacy recordings under savedRecordings.
MaxRecordings == 3

\* Number of calls of saveRecording, deleteRecording, clearAllRecordings and
\* updateRecordingName from outside the migration in one behaviour.
MaxStoreCalls == 2

\* The ids of the legacy recordings, by their position in savedRecordings.
RecordingIds == <<"r1", "r2", "r3", "r4">>

\* The keys the object store 'recordings' may hold.
StoreKeys == {RecordingIds[i] : i \in 1..MaxRecordings}

\* The object store 'recordings' with no record.
EmptyStore == [id \in StoreKeys |-> None]

\* No migration has been asked for: savedRecordings is not set, the object
\* store 'recordings' of IndexedDB holds no record and no transaction on it
\* is open.  tx holds, while a readwrite transaction is open, the records
\* the store goes back to if the transaction aborts; calls and last are the
\* number of calls from outside the migration and how the last one settled.
NoMig ==
    [phase |-> "idle", saved |-> None, read |-> None, list |-> <<>>,
     db |-> EmptyStore, tx |-> None,
     next |-> 0, migratedCount |-> 0, errors |-> 0, result |-> None,
     calls |-> 0, last |-> None]

Init ==
    /\ isRecording = FALSE
    /\ recordingChunks = <<>>
    /\ mediaRecorder = 0
    /\ currentStream = 0
    /\ recorders = [r \in CmdIds |-> NoRecorder]
    /\ streams = [s \in CmdIds |-> "none"]
    /\ \E p \in FormatInputs : storage = EmptyStorage(p)
    /\ storageQ = <<>>
    /\ hostTasks = {}
    /\ resp = [c \in CmdIds |-> NoResp]
    /\ acq = [c \in CmdIds |-> NoAcq]
    /\ nCmds = 0
    /\ nData = 0
    /\ appendLog = <<>>
    /\ wav = NoWav
    /\ mig = NoMig

\* The id of the next external event.
NextCmd == nCmds + 1
CanAccept == nCmds < MaxCmds

(***************************************************************************)
(* startRecordingWithStream                                                *)
(***************************************************************************)

\* The session is Capturing with recorder r: the flag is set and r is the
\* script's recorder and is running.
Capturing(r) ==
    /\ isRecording
    /\ mediaRecorder = r
    /\ recorders[r].state = "recording"

\* The recorder that is Capturing now, 0 when none is.
CapturingNow ==
    IF mediaRecorder # 0 /\ Capturing(mediaRecorder) THEN mediaRecorder ELSE 0

\* An answer that accepts the command (used to test C18).
NoStreamIdAccepted(r) == Success(r)

\* sendResponse({ success: false, error: 'Stream ID required' })
NoStreamIdResponse(r) == Failure(r, "Stream ID required")

\* onMessage 'startRecordingWithStream' without message.streamId.
StartRecordingNoStreamId ==
    /\ CanAccept
    /\ nCmds' = NextCmd
    /\ resp' = [resp EXCEPT ![NextCmd] =
                   NoStreamIdResponse([Pending("startRecordingWithStream", None)
                                          EXCEPT !.during = CapturingNow])]
    /\ UNCHANGED <<session, storage, storageQ, hostTasks, acq, nData, appendLog>>
    /\ UNCHANGED <<wav, mig>>

\* The popup-recording fallback of startRecordingFromStreamId: store the
\* stream id, set the flag, resolve.
PopupFallback(c, sid) ==
    /\ storage' = [storage EXCEPT !.recordingStreamId = Some(sid)]
    /\ isRecording' = TRUE
    /\ UNCHANGED <<recordingChunks, mediaRecorder, currentStream, recorders, streams>>

\* onMessage 'startRecordingWithStream' where navigator.mediaDevices.getUserMedia
\* does not exist.
StartRecordingNoGetUserMedia(sid) ==
    /\ CanAccept
    /\ nCmds' = NextCmd
    /\ PopupFallback(NextCmd, sid)
    /\ resp' = [resp EXCEPT ![NextCmd] =
                   Success([Pending("startRecordingWithStream", Some(sid))
                               EXCEPT !.during = CapturingNow])]
    /\ UNCHANGED <<storageQ, hostTasks, acq, nData, appendLog>>
    /\ UNCHANGED <<wav, mig>>

\* onMessage 'startRecordingWithStream': getUserMedia is called and awaited.
StartRecordingWithStream(sid) ==
    /\ CanAccept
    /\ nCmds' = NextCmd
    /\ resp' = [resp EXCEPT ![NextCmd] =
                   [Pending("startRecordingWithStream", Some(sid))
                       EXCEPT !.during = CapturingNow]]
    /\ hostTasks' = hostTasks \cup {HostTask("getUserMedia", NextCmd, <<>>)}
    /\ UNCHANGED <<session, storage, storageQ, acq, nData, appendLog>>
    /\ UNCHANGED <<wav, mig>>

\* getUserMedia rejects: the catch block falls back to popup recording.
GetUserMediaRejected(c) ==
    /\ HostTask("getUserMedia", c, <<>>) \in hostTasks
    /\ hostTasks' = hostTasks \ {HostTask("getUserMedia", c, <<>>)}
    /\ PopupFallback(c, resp[c].arg[1])
    /\ resp' = [resp EXCEPT ![c] = Success(@)]
    /\ UNCHANGED <<storageQ, acq, nCmds, nData, appendLog>>
    /\ UNCHANGED <<wav, mig>>

\* getUserMedia resolves with a stream: currentStream = stream, then the
\* preferences are read.
GetUserMediaResolved(c) ==
    /\ HostTask("getUserMedia", c, <<>>) \in hostTasks
    /\ hostTasks' = hostTasks \ {HostTask("getUserMedia", c, <<>>)}
    /\ streams' = [streams EXCEPT ![c] = "live"]
    /\ currentStream' = c
    /\ storageQ' = Append(storageQ,
           StorageTask("start.preferences", c, <<>>, StorageGet(storage, {"preferences"})))
    /\ UNCHANGED <<isRecording, recordingChunks, mediaRecorder, recorders, storage,
                   resp, acq, nCmds, nData, appendLog>>
    /\ UNCHANGED <<wav, mig>>

\* The host's MediaRecorder accepts 'audio/webm'; whether it accepts another
\* container is the host's choice.
HostMayRefuse(mime) == mime # "audio/webm"

\* The preferences callback of startRecordingFromStreamId when new
\* MediaRecorder(stream, {mimeType}) throws NotSupportedError: the exception
\* leaves the callback, nothing after it runs, the promise is never settled.
StartPreferencesThrows ==
    /\ storageQ # <<>>
    /\ Head(storageQ).kind = "start.preferences"
    /\ HostMayRefuse(MimeTypeFor(FormatOf(Head(storageQ).read.preferences)))
    /\ storageQ' = Tail(storageQ)
    /\ UNCHANGED <<session, storage, hostTasks, resp, acq, nCmds, nData, appendLog>>
    /\ UNCHANGED <<wav, mig>>

\* The preferences callback of startRecordingFromStreamId: the recorder is
\* created and started, the chunk sequence reset, the start time stored.
StartPreferencesCallback ==
    /\ storageQ # <<>>
    /\ Head(storageQ).kind = "start.preferences"
    /\ LET c == Head(storageQ).cmd
           mime == MimeTypeFor(FormatOf(Head(storageQ).read.preferences))
       IN /\ recorders' = [recorders EXCEPT ![c] =
                  [state |-> "recording", onstop |-> <<>>, events |-> <<>>,
                   mime |-> mime, delivered |-> <<>>]]
          /\ mediaRecorder' = c
          /\ recordingChunks' = <<>>
          /\ appendLog' = <<>>
          /\ isRecording' = TRUE
          /\ storage' = [storage EXCEPT !.recordingStartTime = Some("now")]
          /\ resp' = [resp EXCEPT ![c] = Success(@)]
    /\ storageQ' = Tail(storageQ)
    /\ UNCHANGED <<currentStream, streams, hostTasks, acq, nCmds, nData>>
    /\ UNCHANGED <<wav, mig>>

(***************************************************************************)
(* The recorder's events                                                   *)
(***************************************************************************)

\* Payloads a data event may still carry: non-empty ones are budgeted.
PayloadChoices == IF nData < MaxData THEN DataPayloads ELSE {<<>>}

\* A push that puts the new chunk in front (used to test C1).
PushChunkFront(chunks, blob) == <<blob>> \o chunks

\* recordingChunks.push(blob)
PushChunk(chunks, blob) == Append(chunks, blob)

\* A data handler that pushes the chunk and writes nothing (used to test
\* C29).
OnDataAvailableNoWrite(r, payload) ==
    IF Len(payload) > 0
    THEN /\ recordingChunks' = PushChunk(recordingChunks, NewBlob(payload, recorders[r].mime))
         /\ appendLog' = Append(appendLog, payload)
         /\ nData' = nData + 1
         /\ UNCHANGED hostTasks
    ELSE UNCHANGED <<recordingChunks, hostTasks, appendLog, nData>>

\* mediaRecorder.ondataavailable of recorder r: a non-empty payload is
\* pushed, and the serialisation of the whole sequence is started; the write
\* follows when the arrayBuffer promises have resolved.
OnDataAvailable(r, payload) ==
    IF Len(payload) > 0
    THEN /\ recordingChunks' = PushChunk(recordingChunks, NewBlob(payload, recorders[r].mime))
         /\ hostTasks' = StartTask(hostTasks,
                HostTask("arrayBuffer.persist", 0, ChunksArray(recordingChunks')))
         /\ appendLog' = Append(appendLog, payload)
         /\ nData' = nData + 1
    ELSE UNCHANGED <<recordingChunks, hostTasks, appendLog, nData>>

\* Bookkeeping: the non-empty payloads recorder rec has handed to its
\* ondataavailable handler so far, in the order of the events.
Delivered(rec, payload) ==
    IF Len(payload) > 0 THEN [rec EXCEPT !.delivered = Append(@, payload)] ELSE rec

\* A timeslice (100 ms) of a running recorder elapses: dataavailable fires.
RecorderTimeslice(r) ==
    /\ recorders[r].state = "recording"
    /\ \E payload \in PayloadChoices :
          /\ OnDataAvailable(r, payload)
          /\ recorders' = [recorders EXCEPT ![r] = Delivered(@, payload)]
    /\ UNCHANGED <<isRecording, mediaRecorder, currentStream, streams,
                   storage, storageQ, resp, acq, nCmds>>
    /\ UNCHANGED <<wav, mig>>

\* A queued dataavailable event (requestData, or the last data of stop) fires.
RecorderQueuedData(r) ==
    /\ recorders[r].events # <<>>
    /\ Head(recorders[r].events) = "dataavailable"
    /\ \E payload \in PayloadChoices :
          /\ OnDataAvailable(r, payload)
          /\ recorders' = [recorders EXCEPT ![r] =
                               Delivered([@ EXCEPT !.events = Tail(@)], payload)]
    /\ UNCHANGED <<isRecording, mediaRecorder, currentStream, streams,
                   storage, storageQ, resp, acq, nCmds>>
    /\ UNCHANGED <<wav, mig>>

\* The queued stop event fires: the recorder's current onstop handler runs.
\* The handler installed at start only logs; a handler installed by
\* handleStopCapture reads the preferences and goes on in StopCallback.
RecorderStopEvent(r) ==
    /\ recorders[r].events # <<>>
    /\ Head(recorders[r].events) = "stop"
    /\ recorders' = [recorders EXCEPT ![r].events = Tail(@)]
    /\ LET h == recorders[r].onstop
       IN storageQ' =
            IF h = <<>> THEN storageQ
            ELSE Append(storageQ,
                   StorageTask("stop.preferences", h[Len(h)], SubSeq(h, 1, Len(h) - 1),
                               StorageGet(storage, {"preferences"})))
    /\ UNCHANGED <<isRecording, recordingChunks, mediaRecorder, currentStream, streams,
                   storage, hostTasks, resp, acq, nCmds, nData, appendLog>>
    /\ UNCHANGED <<wav, mig>>

\* The promises of chunk.arrayBuffer() have resolved:
\* chrome.storage.local.set({recordingChunks: chunksArray}).
PersistChunks == \E t \in hostTasks :
    /\ t.kind = "arrayBuffer.persist"
    /\ hostTasks' = SettleTask(hostTasks, t)
    /\ storage' = [storage EXCEPT !.recordingChunks = Some(t.data)]
    /\ UNCHANGED <<session, storageQ, resp, acq, nCmds, nData, appendLog>>
    /\ UNCHANGED <<wav, mig>>

\* A failed write that throws the chunks away (used to test C19).
WriteFailureDropsChunks ==
    /\ recordingChunks' = <<>>
    /\ UNCHANGED <<isRecording, mediaRecorder, currentStream, recorders, streams,
                   storage>>

\* chrome.storage.local.set({recordingChunks}) fails (QUOTA_BYTES exceeded):
\* the call has no callback and is not awaited, so the failure reaches no
\* code of the script and the store keeps what it held.
WriteFailure ==
    UNCHANGED <<isRecording, recordingChunks, mediaRecorder, currentStream,
                recorders, streams, storage>>

\* The promises of chunk.arrayBuffer() have resolved and the store refuses
\* the snapshot.
PersistChunksFails == \E t \in hostTasks :
    /\ t.kind = "arrayBuffer.persist"
    /\ hostTasks' = SettleTask(hostTasks, t)
    /\ WriteFailure
    /\ UNCHANGED <<storageQ, resp, acq, nCmds, nData, appendLog>>
    /\ UNCHANGED <<wav, mig>>

(***************************************************************************)
(* stopCapture                                                             *)
(***************************************************************************)

\* The answer of stopCapture for a blob that is not null is sent after its
\* arrayBuffer() promise; null is answered at once.  An answer to a promise
\* that is settled already (rejected by a throw) is dropped.
ResolveTasks(c, blobOpt) ==
    IF resp[c].st = "pending" /\ blobOpt # None
    THEN {HostTask("arrayBuffer.respond", c, Some(blobOpt[1].bytes))}
    ELSE {}

ResolveNow(c, blobOpt) ==
    IF resp[c].st = "pending" /\ blobOpt = None
    THEN [resp EXCEPT ![c] = Success(@)]
    ELSE resp

\* mediaRecorder.stop() on a running recorder: it becomes inactive and
\* queues its last dataavailable and its stop event.
StopRecorder(rec) ==
    [rec EXCEPT !.state = "inactive", !.events = @ \o <<"dataavailable", "stop">>]

\* mediaRecorder.requestData(): queues a dataavailable event.
RequestData(rec) == [rec EXCEPT !.events = Append(@, "dataavailable")]

\* handleStopCapture with a running recorder: the onstop handler is wrapped,
\* the last data requested, the recorder stopped.
StopCaptureRecording ==
    /\ CanAccept
    /\ mediaRecorder # 0 /\ isRecording
    /\ recorders[mediaRecorder].state = "recording"
    /\ nCmds' = NextCmd
    /\ resp' = [resp EXCEPT ![NextCmd] =
                   [Pending("stopCapture", None) EXCEPT !.during = CapturingNow]]
    /\ recorders' = [recorders EXCEPT ![mediaRecorder] =
           StopRecorder(RequestData([@ EXCEPT !.onstop = Append(@, NextCmd)]))]
    /\ UNCHANGED <<isRecording, recordingChunks, mediaRecorder, currentStream, streams,
                   storage, storageQ, hostTasks, acq, nData, appendLog>>
    /\ UNCHANGED <<wav, mig>>

\* handleStopCapture while the recorder is inactive already and the host's
\* stop() does nothing on an inactive recorder: the handler is wrapped and no
\* event is queued.
StopCaptureInactive ==
    /\ CanAccept
    /\ mediaRecorder # 0 /\ isRecording
    /\ recorders[mediaRecorder].state = "inactive"
    /\ nCmds' = NextCmd
    /\ resp' = [resp EXCEPT ![NextCmd] = Pending("stopCapture", None)]
    /\ recorders' = [recorders EXCEPT ![mediaRecorder].onstop = Append(@, NextCmd)]
    /\ UNCHANGED <<isRecording, recordingChunks, mediaRecorder, currentStream, streams,
                   storage, storageQ, hostTasks, acq, nData, appendLog>>
    /\ UNCHANGED <<wav, mig>>

\* The same where the host's stop() throws InvalidStateError on an inactive
\* recorder: the handler is wrapped already, the promise rejects.
StopCaptureInactiveThrows ==
    /\ CanAccept
    /\ mediaRecorder # 0 /\ isRecording
    /\ recorders[mediaRecorder].state = "inactive"
    /\ nCmds' = NextCmd
    /\ resp' = [resp EXCEPT ![NextCmd] =
                   Failure(Pending("stopCapture", None), "InvalidStateError")]
    /\ recorders' = [recorders EXCEPT ![mediaRecorder].onstop = Append(@, NextCmd)]
    /\ UNCHANGED <<isRecording, recordingChunks, mediaRecorder, currentStream, streams,
                   storage, storageQ, hostTasks, acq, nData, appendLog>>
    /\ UNCHANGED <<wav, mig>>

\* What the wrapped onstop handler resolves with: the blob, the blob rebuilt
\* from the copy of the chunks when the blob is empty, or null.
StopResult(chunks, mime) ==
    LET blob == BlobFromChunks(chunks, mime)
        chunksToReturn == chunks
    IN IF Len(blob.bytes) > 0 THEN Some(blob)
       ELSE IF Len(chunksToReturn) > 0 THEN Some(BlobFromChunks(chunksToReturn, mime))
       ELSE None

\* The preferences callback inside the wrapped onstop handler: build the
\* blob, call the handler that was wrapped, reset the session, release the
\* stream, remove the stored keys, resolve.
StopCallback ==
    /\ storageQ # <<>>
    /\ Head(storageQ).kind = "stop.preferences"
    /\ LET t == Head(storageQ)
           c == t.cmd
           mime == MimeTypeFor(FormatOf(t.read.preferences))
           result == StopResult(recordingChunks, mime)
           callWrapped == mediaRecorder # 0 /\ t.below # <<>>
       IN /\ storageQ' =
                IF callWrapped
                THEN Append(Tail(storageQ),
                        StorageTask("stop.preferences", t.below[Len(t.below)],
                                    SubSeq(t.below, 1, Len(t.below) - 1),
                                    StorageGet(storage, {"preferences"})))
                ELSE Tail(storageQ)
          /\ hostTasks' = hostTasks \cup ResolveTasks(c, result)
                 \cup (IF currentStream # 0
                       THEN {HostTask("timer.nullStream", c, <<>>)} ELSE {})
          /\ resp' = ResolveNow(c, result)
    /\ isRecording' = FALSE
    /\ recordingChunks' = <<>>
    /\ appendLog' = <<>>
    /\ streams' = IF currentStream # 0
                  THEN [streams EXCEPT ![currentStream] = "ended"] ELSE streams
    /\ storage' = RemoveRecordingKeys(storage)
    /\ mediaRecorder' = 0
    /\ UNCHANGED <<currentStream, recorders, acq, nCmds, nData>>
    /\ UNCHANGED <<wav, mig>>

\* setTimeout(() => { currentStream = null }, 50)
NullStreamTimer == \E t \in hostTasks :
    /\ t.kind = "timer.nullStream"
    /\ hostTasks' = hostTasks \ {t}
    /\ currentStream' = 0
    /\ UNCHANGED <<isRecording, recordingChunks, mediaRecorder, recorders, streams,
                   storage, storageQ, resp, acq, nCmds, nData, appendLog>>
    /\ UNCHANGED <<wav, mig>>

\* handleStopCapture with no active recorder and chunks in memory: the
\* preferences are read first.
StopCaptureIdleChunks ==
    /\ CanAccept
    /\ ~(mediaRecorder # 0 /\ isRecording)
    /\ Len(recordingChunks) > 0
    /\ nCmds' = NextCmd
    /\ resp' = [resp EXCEPT ![NextCmd] = Pending("stopCapture", None)]
    /\ storageQ' = Append(storageQ,
           StorageTask("stopIdle.preferences", NextCmd, <<>>,
                       StorageGet(storage, {"preferences"})))
    /\ UNCHANGED <<session, storage, hostTasks, acq, nData, appendLog>>
    /\ UNCHANGED <<wav, mig>>

\* Its preferences callback: the blob of the chunks now in memory, reset,
\* remove the stored keys, resolve with the blob.
StopIdleCallback ==
    /\ storageQ # <<>>
    /\ Head(storageQ).kind = "stopIdle.preferences"
    /\ LET t == Head(storageQ)
           blob == BlobFromChunks(recordingChunks,
                                  MimeTypeFor(FormatOf(t.read.preferences)))
       IN hostTasks' = hostTasks \cup ResolveTasks(t.cmd, Some(blob))
    /\ storageQ' = Tail(storageQ)
    /\ recordingChunks' = <<>>
    /\ appendLog' = <<>>
    /\ isRecording' = FALSE
    /\ storage' = RemoveRecordingKeys(storage)
    /\ UNCHANGED <<mediaRecorder, currentStream, recorders, streams, resp, acq,
                   nCmds, nData>>
    /\ UNCHANGED <<wav, mig>>

\* A stop that answers null and leaves the store as it is (used to test C32).
StopCaptureIdleEmptyKeepsStore ==
    /\ CanAccept
    /\ ~(mediaRecorder # 0 /\ isRecording)
    /\ Len(recordingChunks) = 0
    /\ nCmds' = NextCmd
    /\ resp' = [resp EXCEPT ![NextCmd] = Success(Pending("stopCapture", None))]
    /\ isRecording' = FALSE
    /\ recordingChunks' = <<>>
    /\ appendLog' = <<>>
    /\ UNCHANGED <<mediaRecorder, currentStream, recorders, streams, storage, storageQ,
                   hostTasks, acq, nData>>
    /\ UNCHANGED <<wav, mig>>

\* handleStopCapture with no active recorder and no chunks: reset, remove
\* the stored keys, resolve with null.
StopCaptureIdleEmpty ==
    /\ CanAccept
    /\ ~(mediaRecorder # 0 /\ isRecording)
    /\ Len(recordingChunks) = 0
    /\ nCmds' = NextCmd
    /\ resp' = [resp EXCEPT ![NextCmd] = Success(Pending("stopCapture", None))]
    /\ isRecording' = FALSE
    /\ recordingChunks' = <<>>
    /\ appendLog' = <<>>
    /\ storage' = RemoveRecordingKeys(storage)
    /\ UNCHANGED <<mediaRecorder, currentStream, recorders, streams, storageQ,
                   hostTasks, acq, nData>>
    /\ UNCHANGED <<wav, mig>>

\* audioBlob.arrayBuffer() has resolved: the bytes are sent, by stopCapture
\* as {success, audioBlob} and by getRecordingData with hasData: true.
RespondWithAudio == \E t \in hostTasks :
    /\ t.kind = "arrayBuffer.respond"
    /\ hostTasks' = hostTasks \ {t}
    /\ resp' = [resp EXCEPT ![t.cmd] =
                   [Success(@) EXCEPT !.audio = t.data,
                       !.hasData = IF resp[t.cmd].action = "getRecordingData"
                                   THEN "true" ELSE "absent"]]
    /\ UNCHANGED <<session, storage, storageQ, acq, nCmds, nData, appendLog>>
    /\ UNCHANGED <<wav, mig>>

(***************************************************************************)
(* getRecordingState, getRecordingData, clearRecording, addRecordingChunk  *)
(***************************************************************************)

\* onMessage 'getRecordingState': the two keys are read.
GetRecordingState ==
    /\ CanAccept
    /\ nCmds' = NextCmd
    /\ resp' = [resp EXCEPT ![NextCmd] =
                   [Pending("getRecordingState", None) EXCEPT !.flag = isRecording]]
    /\ storageQ' = Append(storageQ,
           StorageTask("getRecordingState", NextCmd, <<>>,
                       StorageGet(storage, {"recordingStartTime", "recordingChunks"})))
    /\ UNCHANGED <<session, storage, hostTasks, acq, nData, appendLog>>
    /\ UNCHANGED <<wav, mig>>

\* isRecording && (result.recordingStartTime || recordingChunks.length > 0),
\* by its truth value.
HasActiveRecording(flag, chunks, read) ==
    IF flag /\ (read.recordingStartTime # None \/ Len(chunks) > 0)
    THEN "true" ELSE "false"

\* An answer that looks at the memory only (used to test C8).
HasRecordingMemoryOnly(chunks, read) ==
    IF Len(chunks) > 0 THEN "true" ELSE "false"

\* recordingChunks.length > 0 ||
\*   (result.recordingChunks && result.recordingChunks.length > 0)
HasRecording(chunks, read) ==
    IF Len(chunks) > 0 THEN "true"
    ELSE IF read.recordingChunks = None THEN "undefined"
    ELSE IF Len(read.recordingChunks[1]) > 0 THEN "true" ELSE "false"

\* The callback of getRecordingState's read: the answer is computed from the
\* memory as it is now and the store as it was read.
GetRecordingStateCallback ==
    /\ storageQ # <<>>
    /\ Head(storageQ).kind = "getRecordingState"
    /\ LET t == Head(storageQ)
       IN resp' = [resp EXCEPT ![t.cmd] =
              [Success(@) EXCEPT
                  !.isRecording = HasActiveRecording(isRecording, recordingChunks, t.read),
                  !.hasRecording = HasRecording(recordingChunks, t.read)]]
    /\ storageQ' = Tail(storageQ)
    /\ UNCHANGED <<session, storage, hostTasks, acq, nCmds, nData, appendLog>>
    /\ UNCHANGED <<wav, mig>>

\* onMessage 'getRecordingData' with no chunk in memory.
GetRecordingDataEmpty ==
    /\ CanAccept
    /\ Len(recordingChunks) = 0
    /\ nCmds' = NextCmd
    /\ resp' = [resp EXCEPT ![NextCmd] =
                   [Success(Pending("getRecordingData", None)) EXCEPT !.hasData = "false"]]
    /\ UNCHANGED <<session, storage, storageQ, hostTasks, acq, nData, appendLog>>
    /\ UNCHANGED <<wav, mig>>

\* onMessage 'getRecordingData' with chunks in memory: the preferences are read.
GetRecordingData ==
    /\ CanAccept
    /\ Len(recordingChunks) > 0
    /\ nCmds' = NextCmd
    /\ resp' = [resp EXCEPT ![NextCmd] = Pending("getRecordingData", None)]
    /\ storageQ' = Append(storageQ,
           StorageTask("getRecordingData.preferences", NextCmd, <<>>,
                       StorageGet(storage, {"preferences"})))
    /\ UNCHANGED <<session, storage, hostTasks, acq, nData, appendLog>>
    /\ UNCHANGED <<wav, mig>>

\* A callback that hands the chunks over and empties the memory (used to
\* test C31).
GetRecordingDataCallbackDrains ==
    /\ storageQ # <<>>
    /\ Head(storageQ).kind = "getRecordingData.preferences"
    /\ LET t == Head(storageQ)
           blob == BlobFromChunks(recordingChunks,
                                  MimeTypeFor(FormatOf(t.read.preferences)))
       IN hostTasks' = hostTasks \cup ResolveTasks(t.cmd, Some(blob))
    /\ storageQ' = Tail(storageQ)
    /\ recordingChunks' = <<>>
    /\ UNCHANGED <<isRecording, mediaRecorder, currentStream, recorders, streams,
                   storage, resp, acq, nCmds, nData, appendLog>>
    /\ UNCHANGED <<wav, mig>>

\* Its preferences callback: the blob of the chunks now in memory; the answer
\* follows the blob's arrayBuffer().
GetRecordingDataCallback ==
    /\ storageQ # <<>>
    /\ Head(storageQ).kind = "getRecordingData.preferences"
    /\ LET t == Head(storageQ)
           blob == BlobFromChunks(recordingChunks,
                                  MimeTypeFor(FormatOf(t.read.preferences)))
       IN hostTasks' = hostTasks \cup ResolveTasks(t.cmd, Some(blob))
    /\ storageQ' = Tail(storageQ)
    /\ UNCHANGED <<session, storage, resp, acq, nCmds, nData, appendLog>>
    /\ UNCHANGED <<wav, mig>>

\* The globals and the store as one value.
Now ==
    [isRecording |-> isRecording, recordingChunks |-> recordingChunks,
     mediaRecorder |-> mediaRecorder, currentStream |-> currentStream,
     recorders |-> recorders, streams |-> streams, storage |-> storage]

\* A clear that leaves the store alone (used to test C12).
ClearKeepsStore(s) ==
    [s EXCEPT !.mediaRecorder = 0, !.isRecording = FALSE, !.currentStream = 0,
              !.recordingChunks = <<>>]

\* The body of the clearRecording branch applied to the globals and store s:
\* an active recorder is stopped when it is running and dropped with the
\* flag, the stream's tracks are stopped and the stream dropped, the chunks
\* emptied and the four recording keys removed.
ClearRecordingOf(s) ==
    LET active == s.mediaRecorder # 0 /\ s.isRecording
    IN [isRecording |-> IF active THEN FALSE ELSE s.isRecording,
        mediaRecorder |-> IF active THEN 0 ELSE s.mediaRecorder,
        recorders |->
            IF active /\ s.recorders[s.mediaRecorder].state = "recording"
            THEN [s.recorders EXCEPT ![s.mediaRecorder] = StopRecorder(@)]
            ELSE s.recorders,
        streams |-> IF s.currentStream # 0
                    THEN [s.streams EXCEPT ![s.currentStream] = "ended"]
                    ELSE s.streams,
        currentStream |-> 0,
        recordingChunks |-> <<>>,
        storage |-> RemoveRecordingKeys(s.storage)]

\* onMessage 'clearRecording'.
ClearRecording ==
    /\ CanAccept
    /\ nCmds' = NextCmd
    /\ resp' = [resp EXCEPT ![NextCmd] = Success(Pending("clearRecording", None))]
    /\ LET after == ClearRecordingOf(Now)
       IN /\ isRecording' = after.isRecording
          /\ mediaRecorder' = after.mediaRecorder
          /\ recorders' = after.recorders
          /\ streams' = after.streams
          /\ currentStream' = after.currentStream
          /\ recordingChunks' = after.recordingChunks
          /\ storage' = after.storage
    /\ appendLog' = <<>>
    /\ UNCHANGED <<storageQ, hostTasks, acq, nData>>
    /\ UNCHANGED <<wav, mig>>

\* onMessage 'addRecordingChunk' without message.chunk.
AddRecordingChunkNone ==
    /\ CanAccept
    /\ nCmds' = NextCmd
    /\ resp' = [resp EXCEPT ![NextCmd] = Success(Pending("addRecordingChunk", None))]
    /\ UNCHANGED <<session, storage, storageQ, hostTasks, acq, nData, appendLog>>
    /\ UNCHANGED <<wav, mig>>

\* onMessage 'addRecordingChunk' with message.chunk (an empty array counts):
\* the blob is pushed and the stored chunks are read.
AddRecordingChunk(chunk) ==
    /\ CanAccept
    /\ nCmds' = NextCmd
    /\ resp' = [resp EXCEPT ![NextCmd] =
                   Success(Pending("addRecordingChunk", Some(chunk)))]
    /\ recordingChunks' =
           PushChunk(recordingChunks, NewBlob(NewUint8Array(chunk), "audio/webm"))
    /\ appendLog' = Append(appendLog, NewUint8Array(chunk))
    /\ storageQ' = Append(storageQ,
           StorageTask("addRecordingChunk.get", NextCmd, <<>>,
                       StorageGet(storage, {"recordingChunks"})))
    /\ UNCHANGED <<isRecording, mediaRecorder, currentStream, recorders, streams,
                   storage, hostTasks, acq, nData>>
    /\ UNCHANGED <<wav, mig>>

\* A snapshot that puts the chunks in memory after the stored ones (used to
\* test C17).
SnapshotMerged(chunks, existing) ==
    (IF existing = None THEN <<>> ELSE existing[1]) \o ChunksArray(chunks)

\* What addRecordingChunk's callback writes: existingChunks is read from the
\* store but not used, chunksArray is made of the chunks in memory.
SnapshotToWrite(chunks, existing) == ChunksArray(chunks)

\* The callback of addRecordingChunk's read: the chunks now in memory are
\* serialised; the write follows their arrayBuffer() promises.  With no
\* chunk in memory Promise.all([]) is resolved already and the await goes on
\* in the callback's own task: the callback writes the empty list itself.
AddRecordingChunkCallback ==
    /\ storageQ # <<>>
    /\ Head(storageQ).kind = "addRecordingChunk.get"
    /\ LET chunksArray == SnapshotToWrite(recordingChunks,
                                          Head(storageQ).read.recordingChunks)
       IN IF Len(recordingChunks) = 0
          THEN /\ storage' = [storage EXCEPT !.recordingChunks = Some(chunksArray)]
               /\ UNCHANGED hostTasks
          ELSE /\ hostTasks' = StartTask(hostTasks,
                      HostTask("arrayBuffer.persist", 0, chunksArray))
               /\ UNCHANGED storage
    /\ storageQ' = Tail(storageQ)
    /\ UNCHANGED <<session, resp, acq, nCmds, nData, appendLog>>
    /\ UNCHANGED <<wav, mig>>

(***************************************************************************)
(* The popup's port                                                        *)
(***************************************************************************)

\* A disconnect handler that cancels the session (used to test C11).
OnDisconnectCancels ==
    /\ isRecording' = FALSE
    /\ recordingChunks' = <<>>
    /\ UNCHANGED <<mediaRecorder, currentStream, recorders, streams, storage,
                   storageQ, hostTasks>>

\* port.onDisconnect.addListener(() => { console.log(...) }): nothing but a
\* log line.
OnDisconnect ==
    UNCHANGED <<isRecording, recordingChunks, mediaRecorder, currentStream,
                recorders, streams, storage, storageQ, hostTasks>>

\* The popup connects a port and closes: onConnect registers the disconnect
\* handler, which runs when the port goes away.
PortDisconnect ==
    /\ CanAccept
    /\ nCmds' = NextCmd
    /\ resp' = [resp EXCEPT ![NextCmd] =
                   Success([Pending("disconnect", None) EXCEPT !.during = CapturingNow])]
    /\ OnDisconnect
    /\ UNCHANGED <<acq, nData, appendLog>>
    /\ UNCHANGED <<wav, mig>>

(***************************************************************************)
(* Recorder errors                                                         *)
(***************************************************************************)

\* mediaRecorder.onerror of recorder r: console.error, nothing else.
OnError(r) ==
    UNCHANGED <<isRecording, recordingChunks, mediaRecorder, currentStream, streams,
                storage, storageQ, hostTasks>>

\* A running recorder reports an error and goes on recording: its onerror
\* handler runs.  Errors are external events and take an event slot.
RecorderError(r) ==
    /\ CanAccept
    /\ recorders[r].state = "recording"
    /\ nCmds' = NextCmd
    /\ resp' = [resp EXCEPT ![NextCmd] =
                   Success([Pending("error", Some(r)) EXCEPT !.during = CapturingNow])]
    /\ OnError(r)
    /\ UNCHANGED <<recorders, acq, nData, appendLog>>
    /\ UNCHANGED <<wav, mig>>

\* A running recorder reports an error and the host ends the recording with
\* it, as the MediaStream Recording specification prescribes: the recorder
\* becomes inactive, its onerror handler runs, and its last dataavailable and
\* its stop event are queued.
RecorderErrorStops(r) ==
    /\ CanAccept
    /\ recorders[r].state = "recording"
    /\ nCmds' = NextCmd
    /\ resp' = [resp EXCEPT ![NextCmd] =
                   Success([Pending("error", Some(r)) EXCEPT !.during = CapturingNow])]
    /\ OnError(r)
    /\ recorders' = [recorders EXCEPT ![r] = StopRecorder(@)]
    /\ UNCHANGED <<acq, nData, appendLog>>
    /\ UNCHANGED <<wav, mig>>

(***************************************************************************)
(* Suspension                                                              *)
(***************************************************************************)

\* chrome.runtime.onSuspend listener: an active recorder is stopped (a
\* running one queues its last data and its stop event; on one that is
\* inactive already this host's stop() does nothing), the tracks of the
\* stream are stopped.  No global is assigned and the store is not touched.
OnSuspend ==
    /\ CanAccept
    /\ nCmds' = NextCmd
    /\ resp' = [resp EXCEPT ![NextCmd] =
                   Success([Pending("suspend", None) EXCEPT !.during = CapturingNow])]
    /\ recorders' =
           IF mediaRecorder # 0 /\ isRecording
                 /\ recorders[mediaRecorder].state = "recording"
           THEN [recorders EXCEPT ![mediaRecorder] = StopRecorder(@)]
           ELSE recorders
    /\ streams' = IF currentStream # 0
                  THEN [streams EXCEPT ![currentStream] = "ended"] ELSE streams
    /\ UNCHANGED <<isRecording, recordingChunks, mediaRecorder, currentStream,
                   storage, storageQ, hostTasks, acq, nData, appendLog>>
    /\ UNCHANGED <<wav, mig>>

\* The same on a host whose stop() throws InvalidStateError on an inactive
\* recorder: the exception leaves the listener before the tracks are stopped.
OnSuspendThrows ==
    /\ CanAccept
    /\ mediaRecorder # 0 /\ isRecording
    /\ recorders[mediaRecorder].state = "inactive"
    /\ nCmds' = NextCmd
    /\ resp' = [resp EXCEPT ![NextCmd] =
                   Failure([Pending("suspend", None) EXCEPT !.during = CapturingNow],
                           "InvalidStateError")]
    /\ UNCHANGED <<session, storage, storageQ, hostTasks, acq, nData, appendLog>>
    /\ UNCHANGED <<wav, mig>>

(***************************************************************************)
(* Restart                                                                 *)
(***************************************************************************)

\* The browser is restarted: the script's memory, its recorders and streams
\* and everything pending are gone, the store is kept, and the onStartup
\* listener reads recordingChunks.  Commands not answered yet never will be.
Restart ==
    /\ CanAccept
    /\ nCmds' = NextCmd
    /\ isRecording' = FALSE
    /\ recordingChunks' = <<>>
    /\ appendLog' = <<>>
    /\ mediaRecorder' = 0
    /\ currentStream' = 0
    /\ recorders' = [r \in CmdIds |-> NoRecorder]
    /\ streams' = [s \in CmdIds |-> IF streams[s] = "none" THEN "none" ELSE "ended"]
    /\ hostTasks' = {}
    /\ storageQ' = <<StorageTask("onStartup.get", NextCmd, <<>>,
                                 StorageGet(storage, {"recordingChunks"}))>>
    /\ resp' = [c \in CmdIds |->
                  IF c = NextCmd THEN Pending("restart", None)
                  ELSE IF resp[c].st = "pending" THEN [resp[c] EXCEPT !.st = "lost"]
                  ELSE resp[c]]
    /\ UNCHANGED <<storage, acq, nData>>
    /\ UNCHANGED <<wav, mig>>

\* The callback of the onStartup read: a stored snapshot replaces the chunks
\* in memory.
OnStartupCallback ==
    /\ storageQ # <<>>
    /\ Head(storageQ).kind = "onStartup.get"
    /\ LET t == Head(storageQ)
           stored == t.read.recordingChunks
       IN /\ recordingChunks' =
                 IF stored # None THEN RestoreChunks(stored[1]) ELSE recordingChunks
          /\ appendLog' = IF stored # None THEN stored[1] ELSE appendLog
          /\ resp' = [resp EXCEPT ![t.cmd] = Success(@)]
    /\ storageQ' = Tail(storageQ)
    /\ UNCHANGED <<isRecording, mediaRecorder, currentStream, recorders, streams,
                   storage, hostTasks, acq, nCmds, nData>>
    /\ UNCHANGED <<wav, mig>>

(***************************************************************************)
(* The session manager's specification                                     *)
(***************************************************************************)

Commands ==
    \/ StartRecordingNoStreamId
    \/ \E sid \in {"abc"} : StartRecordingNoGetUserMedia(sid)
    \/ \E sid \in {"abc"} : StartRecordingWithStream(sid)
    \/ StopCaptureRecording
    \/ StopCaptureInactive
    \/ StopCaptureInactiveThrows
    \/ StopCaptureIdleChunks
    \/ StopCaptureIdleEmpty
    \/ GetRecordingState
    \/ GetRecordingDataEmpty
    \/ GetRecordingData
    \/ ClearRecording
    \/ AddRecordingChunkNone
    \/ \E chunk \in {m[1] : m \in MessageChunks \ {None}} : AddRecordingChunk(chunk)
    \/ PortDisconnect
    \/ \E r \in CmdIds : RecorderError(r)
    \/ \E r \in CmdIds : RecorderErrorStops(r)
    \/ OnSuspend
    \/ OnSuspendThrows
    \/ Restart

HostSteps ==
    \/ \E c \in CmdIds : GetUserMediaRejected(c)
    \/ \E c \in CmdIds : GetUserMediaResolved(c)
    \/ \E r \in CmdIds : RecorderTimeslice(r)
    \/ \E r \in CmdIds : RecorderQueuedData(r)
    \/ \E r \in CmdIds : RecorderStopEvent(r)
    \/ PersistChunks
    \/ PersistChunksFails
    \/ RespondWithAudio
    \/ NullStreamTimer

StorageCallbacks ==
    \/ StartPreferencesThrows
    \/ StartPreferencesCallback
    \/ StopCallback
    \/ StopIdleCallback
    \/ GetRecordingStateCallback
    \/ GetRecordingDataCallback
    \/ AddRecordingChunkCallback
    \/ OnStartupCallback

Next == Commands \/ HostSteps \/ StorageCallbacks

Spec == Init /\ [][Next]_vars

(***************************************************************************)
(* startCapture and the capture acquirer                                   *)
(***************************************************************************)

\* errorMsg.includes('active stream')
IncludesActiveStream(msg) ==
    msg \in {"Cannot capture a tab with an active stream.", "Tab has an active stream"}

\* message.tabId || sender.tab?.id, 0 standing for every falsy value.
TabIdOf(msgTab, senderTab) ==
    IF msgTab # None /\ msgTab[1] # 0 THEN msgTab[1]
    ELSE IF senderTab # None THEN senderTab[1] ELSE 0

\* captureTabAudio(tabId) up to its first suspension: the 100 ms timer.
CaptureTabAudio(c, tabId) ==
    /\ acq' = [acq EXCEPT ![c] = [NoAcq EXCEPT !.tab = tabId]]
    /\ hostTasks' = hostTasks \cup {HostTask("timer.100", c, <<>>)}

\* onMessage 'startCapture'.
StartCapture(msgTab, senderTab) ==
    /\ nCmds < MaxAcquires
    /\ nCmds' = NextCmd
    /\ resp' = [resp EXCEPT ![NextCmd] = Pending("startCapture", msgTab)]
    /\ IF TabIdOf(msgTab, senderTab) # 0
       THEN CaptureTabAudio(NextCmd, TabIdOf(msgTab, senderTab))
       ELSE /\ hostTasks' = hostTasks \cup {HostTask("tabs.query", NextCmd, <<>>)}
            /\ UNCHANGED acq
    /\ UNCHANGED <<session, storage, storageQ, nData, appendLog>>
    /\ UNCHANGED <<wav, mig>>

\* The callback of chrome.tabs.query({active: true, currentWindow: true}).
TabsQueryCallback(c, activeTab) ==
    /\ HostTask("tabs.query", c, <<>>) \in hostTasks
    /\ IF activeTab # None /\ activeTab[1] # 0
       THEN /\ acq' = [acq EXCEPT ![c] = [NoAcq EXCEPT !.tab = activeTab[1]]]
            /\ hostTasks' = (hostTasks \ {HostTask("tabs.query", c, <<>>)})
                               \cup {HostTask("timer.100", c, <<>>)}
            /\ UNCHANGED resp
       ELSE /\ hostTasks' = hostTasks \ {HostTask("tabs.query", c, <<>>)}
            /\ resp' = [resp EXCEPT ![c] = Failure(@, "No active tab found")]
            /\ UNCHANGED acq
    /\ UNCHANGED <<session, storage, storageQ, nCmds, nData, appendLog>>
    /\ UNCHANGED <<wav, mig>>

\* A timer of captureTabAudio fires (100 ms before the first attempt, 500 ms
\* before the retry): chrome.tabCapture.getMediaStreamId is called.
AttemptTimer(c, timer, attempt) ==
    /\ HostTask(timer, c, <<>>) \in hostTasks
    /\ hostTasks' = (hostTasks \ {HostTask(timer, c, <<>>)})
                       \cup {HostTask(attempt, c, <<>>)}
    /\ acq' = [acq EXCEPT ![c].calls = @ + 1]
    /\ UNCHANGED <<session, storage, storageQ, resp, nCmds, nData, appendLog>>
    /\ UNCHANGED <<wav, mig>>

FirstAttemptTimer(c) == AttemptTimer(c, "timer.100", "getMediaStreamId.1")
RetryTimer(c) == AttemptTimer(c, "timer.500", "getMediaStreamId.2")

\* A grant that stores the stream id without the tab id (used to test C16).
AttemptGrantedNoTab(c, attempt, k) ==
    /\ HostTask(attempt, c, <<>>) \in hostTasks
    /\ hostTasks' = hostTasks \ {HostTask(attempt, c, <<>>)}
    /\ acq' = [acq EXCEPT ![c].outcomes = Append(@, "")]
    /\ storage' = [storage EXCEPT !.recordingStreamId = Some(GrantedToken(c, k))]
    /\ storageQ' = Append(storageQ,
           StorageTask("startCapture.get", c, <<>>,
                       StorageGet(storage', {"recordingStreamId"})))
    /\ UNCHANGED <<session, resp, nCmds, nData, appendLog>>
    /\ UNCHANGED <<wav, mig>>

\* A grant whose read-back carries the store as it was before the stream id
\* was written (used to test C36).
AttemptGrantedReadsBefore(c, attempt, k) ==
    /\ HostTask(attempt, c, <<>>) \in hostTasks
    /\ hostTasks' = hostTasks \ {HostTask(attempt, c, <<>>)}
    /\ acq' = [acq EXCEPT ![c].outcomes = Append(@, "")]
    /\ storage' = [storage EXCEPT !.recordingStreamId = Some(GrantedToken(c, k)),
                                  !.recordingTabId = Some(acq[c].tab)]
    /\ storageQ' = Append(storageQ,
           StorageTask("startCapture.get", c, <<>>,
                       StorageGet(storage, {"recordingStreamId"})))
    /\ UNCHANGED <<session, resp, nCmds, nData, appendLog>>
    /\ UNCHANGED <<wav, mig>>

\* getMediaStreamId hands over a stream id: it is stored with the tab id,
\* the promise resolves and startCapture reads recordingStreamId back.
AttemptGranted(c, attempt, k) ==
    /\ HostTask(attempt, c, <<>>) \in hostTasks
    /\ hostTasks' = hostTasks \ {HostTask(attempt, c, <<>>)}
    /\ acq' = [acq EXCEPT ![c].outcomes = Append(@, "")]
    /\ storage' = [storage EXCEPT !.recordingStreamId = Some(GrantedToken(c, k)),
                                  !.recordingTabId = Some(acq[c].tab)]
    /\ storageQ' = Append(storageQ,
           StorageTask("startCapture.get", c, <<>>,
                       StorageGet(storage', {"recordingStreamId"})))
    /\ UNCHANGED <<session, resp, nCmds, nData, appendLog>>
    /\ UNCHANGED <<wav, mig>>

FirstAttemptGranted(c) == AttemptGranted(c, "getMediaStreamId.1", 1)
RetryGranted(c) == AttemptGranted(c, "getMediaStreamId.2", 2)

\* getMediaStreamId reports neither an error nor a stream id.
AttemptNoStreamId(c, attempt) ==
    /\ HostTask(attempt, c, <<>>) \in hostTasks
    /\ hostTasks' = hostTasks \ {HostTask(attempt, c, <<>>)}
    /\ acq' = [acq EXCEPT ![c].outcomes = Append(@, "no stream id")]
    /\ resp' = [resp EXCEPT ![c] = Failure(@, "Failed to get media stream ID")]
    /\ UNCHANGED <<session, storage, storageQ, nCmds, nData, appendLog>>
    /\ UNCHANGED <<wav, mig>>

FirstAttemptNoStreamId(c) == AttemptNoStreamId(c, "getMediaStreamId.1")
RetryNoStreamId(c) == AttemptNoStreamId(c, "getMediaStreamId.2")

\* A first attempt that retries after every error (used to test C6).
RetriesAfterAnyError(msg) == TRUE

\* What the first attempt does with chrome.runtime.lastError: wait 500 ms
\* and retry when it is about an active stream, reject otherwise.
RetriesAfter(msg) == IncludesActiveStream(msg)

\* The first getMediaStreamId call fails with chrome.runtime.lastError.
FirstAttemptError(c, msg) ==
    /\ HostTask("getMediaStreamId.1", c, <<>>) \in hostTasks
    /\ acq' = [acq EXCEPT ![c].outcomes = Append(@, msg)]
    /\ IF RetriesAfter(msg)
       THEN /\ hostTasks' = (hostTasks \ {HostTask("getMediaStreamId.1", c, <<>>)})
                               \cup {HostTask("timer.500", c, <<>>)}
            /\ UNCHANGED resp
       ELSE /\ hostTasks' = hostTasks \ {HostTask("getMediaStreamId.1", c, <<>>)}
            /\ resp' = [resp EXCEPT ![c] = Failure(@, msg)]
    /\ UNCHANGED <<session, storage, storageQ, nCmds, nData, appendLog>>
    /\ UNCHANGED <<wav, mig>>

\* A retry that waits and tries again on a conflict (used to test C5).
RetryOutcomeLoops(c, msg) ==
    IF IncludesActiveStream(msg)
    THEN /\ hostTasks' = (hostTasks \ {HostTask("getMediaStreamId.2", c, <<>>)})
                            \cup {HostTask("timer.500", c, <<>>)}
         /\ UNCHANGED resp
    ELSE /\ hostTasks' = hostTasks \ {HostTask("getMediaStreamId.2", c, <<>>)}
         /\ resp' = [resp EXCEPT ![c] = Failure(@, msg)]

\* What the retry does with chrome.runtime.lastError: reject, whatever it is.
RetryOutcome(c, msg) ==
    /\ hostTasks' = hostTasks \ {HostTask("getMediaStreamId.2", c, <<>>)}
    /\ resp' = [resp EXCEPT ![c] = Failure(@, msg)]

\* The retried getMediaStreamId call fails with chrome.runtime.lastError.
RetryError(c, msg) ==
    /\ HostTask("getMediaStreamId.2", c, <<>>) \in hostTasks
    /\ acq' = [acq EXCEPT ![c].outcomes = Append(@, msg)]
    /\ RetryOutcome(c, msg)
    /\ UNCHANGED <<session, storage, storageQ, nCmds, nData, appendLog>>
    /\ UNCHANGED <<wav, mig>>

\* The callback of startCapture's read of recordingStreamId:
\* sendResponse({success: true, streamId: result.recordingStreamId, method: 'tab'}).
StartCaptureCallback ==
    /\ storageQ # <<>>
    /\ Head(storageQ).kind = "startCapture.get"
    /\ LET t == Head(storageQ)
       IN resp' = [resp EXCEPT ![t.cmd] =
              [Success(@) EXCEPT !.streamId = t.read.recordingStreamId,
                                 !.method = "tab"]]
    /\ storageQ' = Tail(storageQ)
    /\ UNCHANGED <<session, storage, hostTasks, acq, nCmds, nData, appendLog>>
    /\ UNCHANGED <<wav, mig>>

NextAcquire ==
    \/ \E m \in TabIdInputs, s \in SenderTabInputs : StartCapture(m, s)
    \/ \E c \in CmdIds, a \in TabIdInputs : TabsQueryCallback(c, a)
    \/ \E c \in CmdIds : FirstAttemptTimer(c)
    \/ \E c \in CmdIds : FirstAttemptGranted(c)
    \/ \E c \in CmdIds : FirstAttemptNoStreamId(c)
    \/ \E c \in CmdIds, msg \in ErrorMessages : FirstAttemptError(c, msg)
    \/ \E c \in CmdIds : RetryTimer(c)
    \/ \E c \in CmdIds : RetryGranted(c)
    \/ \E c \in CmdIds : RetryNoStreamId(c)
    \/ \E c \in CmdIds, msg \in ErrorMessages : RetryError(c, msg)
    \/ StartCaptureCallback

\* The capture acquirer under startCapture commands.
SpecAcquire == Init /\ [][NextAcquire]_vars

(***************************************************************************)
(* The WAV encoders: convertToWav (background.ts) and blobToWav            *)
(* (the SAM integration utilities)                                         *)
(***************************************************************************)

\* Frames and channels of the decoded buffers that are encoded.
MaxFrames == 2
MaxChannels == 2

\* Samples are floats that are multiples of 1/SampleUnit, at most 1.5 in
\* size; with this power of two every such value is a 32-bit float and its
\* product with 0x8000 or 0x7FFF is exact in floating point, so the integer
\* arithmetic below is the code's arithmetic.
SampleUnit == 65536

\* A test signal in units of 1/SampleUnit: -1.5, 1, -0.25, 0, 0.75, -1,
\* 0.25, 1.5, -0.75, then the float next below 1 at this resolution and the
\* one next below 0.  Each channel of a decoded buffer carries a window of it
\* that starts at the channel's own phase.
TestSignal ==
    <<-98304, 65536, -16384, 0, 49152, -65536, 16384, 98304, -49152, 65535, -1>>

\* audioBuffer.sampleRate values.
SampleRates == {44100, 48000}

\* audioBuffer.getChannelData(channel) of a channel with the given phase.
ChannelData(phase, frames) ==
    [i \in 1..frames |-> TestSignal[((phase + i - 1) % Len(TestSignal)) + 1]]

\* The AudioBuffers decodeAudioData may hand over.
DecodedBuffers ==
    UNION {
        { [sampleRate |-> r, numberOfChannels |-> n, length |-> f,
           channels |-> [c \in 1..n |-> ChannelData(ph[c], f)]]
          : ph \in [1..n -> 0..(Len(TestSignal) - 1)] }
        : r \in SampleRates, n \in 1..MaxChannels, f \in 1..MaxFrames }

\* Number conversion of a store into an Int16Array or of DataView.setInt16:
\* the value is truncated toward zero and wrapped into 16 bits.
TruncDiv(n, d) == IF n >= 0 \/ n % d = 0 THEN n \div d ELSE (n \div d) + 1
ToInt16(n) == ((n + 32768) % 65536) - 32768

\* Math.max(-1, Math.min(1, x)), x in units of 1/SampleUnit.
Clamp(x) == IF x < -SampleUnit THEN -SampleUnit
            ELSE IF x > SampleUnit THEN SampleUnit ELSE x

\* One scale of 32767 for both signs (used to test C22).
ToPcm16Symmetric(x) == ToInt16(TruncDiv(Clamp(x) * 32767, SampleUnit))

\* s < 0 ? s * 0x8000 : s * 0x7FFF, stored as a 16-bit integer.
ToPcm16(x) ==
    LET s == Clamp(x)
    IN IF s < 0 THEN ToInt16(TruncDiv(s * 32768, SampleUnit))
       ELSE ToInt16(TruncDiv(s * 32767, SampleUnit))

\* An index that swaps the channels of a frame (used to test C20).
SwappedIndex(i, channel, numberOfChannels) ==
    i * numberOfChannels + (numberOfChannels - 1 - channel)

\* interleaved[i * numberOfChannels + channel]
InterleavedIndex(i, channel, numberOfChannels) == i * numberOfChannels + channel

RECURSIVE InterleaveFrom(_, _, _, _)
\* The two nested loops of convertToWav from frame i, channel ch on (both
\* counted from 0), interleaved being the Float32Array so far.
InterleaveFrom(buf, i, ch, interleaved) ==
    IF i >= buf.length THEN interleaved
    ELSE IF ch >= buf.numberOfChannels THEN InterleaveFrom(buf, i + 1, 0, interleaved)
    ELSE InterleaveFrom(buf, i, ch + 1,
             [interleaved EXCEPT
                 ![InterleavedIndex(i, ch, buf.numberOfChannels) + 1] =
                     buf.channels[ch + 1][i + 1]])

\* interleaved: a zero-filled Float32Array(length * numberOfChannels), filled
\* by the loops.
Interleave(buf) ==
    InterleaveFrom(buf, 0, 0, [k \in 1..(buf.length * buf.numberOfChannels) |-> 0])

\* pcm: the Int16Array of the interleaved samples.
PcmOf(interleaved) == [k \in 1..Len(interleaved) |-> ToPcm16(interleaved[k])]

\* Little-endian bytes of an unsigned 16-bit, an unsigned 32-bit and a signed
\* 16-bit store.
Uint16LE(n) == << n % 256, (n \div 256) % 256 >>
Uint32LE(n) ==
    << n % 256, (n \div 256) % 256, (n \div 65536) % 256, (n \div 16777216) % 256 >>
Int16LE(n) == Uint16LE(n % 65536)

\* writeString: the character codes of 'RIFF', 'WAVE', 'fmt ' and 'data'.
Riff == <<82, 73, 70, 70>>
Wave == <<87, 65, 86, 69>>
Fmt == <<102, 109, 116, 32>>
Data == <<100, 97, 116, 97>>

\* A header whose RIFF size counts the whole file (used to test C21).
ConvertToWavHeaderWholeFile(buf, pcmLength) ==
    Riff \o Uint32LE(44 + pcmLength * 2) \o Wave \o Fmt \o Uint32LE(16)
    \o Uint16LE(1) \o Uint16LE(buf.numberOfChannels) \o Uint32LE(buf.sampleRate)
    \o Uint32LE(buf.sampleRate * buf.numberOfChannels * 2)
    \o Uint16LE(buf.numberOfChannels * 2) \o Uint16LE(16)
    \o Data \o Uint32LE(pcmLength * 2)

\* The 44 header bytes convertToWav writes for pcmLength 16-bit samples.
ConvertToWavHeader(buf, pcmLength) ==
    Riff \o Uint32LE(36 + pcmLength * 2) \o Wave \o Fmt \o Uint32LE(16)
    \o Uint16LE(1) \o Uint16LE(buf.numberOfChannels) \o Uint32LE(buf.sampleRate)
    \o Uint32LE(buf.sampleRate * buf.numberOfChannels * 2)
    \o Uint16LE(buf.numberOfChannels * 2) \o Uint16LE(16)
    \o Data \o Uint32LE(pcmLength * 2)

RECURSIVE PcmBytes(_)
\* new Int16Array(wavBuffer, 44).set(pcm): the samples in the byte order of
\* the platform, little-endian on every platform the browser runs on.
PcmBytes(pcm) == IF pcm = <<>> THEN <<>> ELSE Int16LE(Head(pcm)) \o PcmBytes(Tail(pcm))

\* An encoder that writes the samples channel after channel instead of frame
\* after frame (used to test C38).
ConvertToWavPlanar(buf) ==
    LET pcm == [k \in 1..(buf.length * buf.numberOfChannels) |->
                   ToPcm16(buf.channels[((k - 1) \div buf.length) + 1]
                                       [((k - 1) % buf.length) + 1])]
    IN ConvertToWavHeader(buf, Len(pcm)) \o PcmBytes(pcm)

\* The bytes of the blob convertToWav returns for the decoded buffer buf.
ConvertToWav(buf) ==
    LET pcm == PcmOf(Interleave(buf))
    IN ConvertToWavHeader(buf, Len(pcm)) \o PcmBytes(pcm)

\* The 44 header bytes blobToWav writes.
BlobToWavHeader(buf) ==
    LET blockAlign == buf.numberOfChannels * 2
        byteRate == buf.sampleRate * blockAlign
        dataSize == buf.length * blockAlign
    IN Riff \o Uint32LE(36 + dataSize) \o Wave \o Fmt \o Uint32LE(16)
       \o Uint16LE(1) \o Uint16LE(buf.numberOfChannels) \o Uint32LE(buf.sampleRate)
       \o Uint32LE(byteRate) \o Uint16LE(blockAlign) \o Uint16LE(16)
       \o Data \o Uint32LE(dataSize)

RECURSIVE BlobToWavFrom(_, _, _, _)
\* The two nested loops of blobToWav from frame i, channel ch on: each
\* sample is written with setInt16(offset, ..., true) and offset moves on by
\* 2, so the bytes written so far are exactly the first offset - 44 ones.
BlobToWavFrom(buf, i, ch, written) ==
    IF i >= buf.length THEN written
    ELSE IF ch >= buf.numberOfChannels THEN BlobToWavFrom(buf, i + 1, 0, written)
    ELSE BlobToWavFrom(buf, i, ch + 1,
             written \o Int16LE(ToPcm16(buf.channels[ch + 1][i + 1])))

\* The bytes of the buffer blobToWav returns for the decoded buffer buf.
BlobToWav(buf) == BlobToWavHeader(buf) \o BlobToWavFrom(buf, 0, 0, <<>>)

\* The globals before any message: the state the encoders are called in.
IdleSession ==
    /\ isRecording = FALSE
    /\ recordingChunks = <<>>
    /\ mediaRecorder = 0
    /\ currentStream = 0
    /\ recorders = [r \in CmdIds |-> NoRecorder]
    /\ streams = [s \in CmdIds |-> "none"]
    /\ storage = EmptyStorage(None)
    /\ storageQ = <<>>
    /\ hostTasks = {}
    /\ resp = [c \in CmdIds |-> NoResp]
    /\ acq = [c \in CmdIds |-> NoAcq]
    /\ nCmds = 0
    /\ nData = 0
    /\ appendLog = <<>>

\* decodeAudioData has resolved with a buffer; the encoder goes on from it.
InitWav ==
    /\ IdleSession
    /\ mig = NoMig
    /\ \E b \in DecodedBuffers :
          wav = [phase |-> "decoded", by |-> "", input |-> b, out |-> <<>>]

\* convertToWav after its two awaits: the WAV blob is built and returned.
ConvertToWavReturns ==
    /\ wav.phase = "decoded"
    /\ wav' = [wav EXCEPT !.phase = "encoded", !.by = "convertToWav",
                          !.out = ConvertToWav(wav.input)]
    /\ UNCHANGED <<session, storage, storageQ, hostTasks, resp, acq, nCmds, nData,
                   appendLog>>
    /\ UNCHANGED mig

\* blobToWav after its two awaits, the blob not being a WAV already.
BlobToWavReturns ==
    /\ wav.phase = "decoded"
    /\ wav' = [wav EXCEPT !.phase = "encoded", !.by = "blobToWav",
                          !.out = BlobToWav(wav.input)]
    /\ UNCHANGED <<session, storage, storageQ, hostTasks, resp, acq, nCmds, nData,
                   appendLog>>
    /\ UNCHANGED mig

NextWav ==
    \/ ConvertToWavReturns
    \/ BlobToWavReturns

\* The encoders applied to every decoded buffer.
SpecWav == InitWav /\ [][NextWav]_vars

(***************************************************************************)
(* One recording from start to stop: startCapture for tab 42, then         *)
(* startRecordingWithStream with the stream id granted, three data events  *)
(* of 1000, 1000 and 500 bytes, then stopCapture.  The handlers are those  *)
(* of the specifications above; the host grants at the first attempt,      *)
(* getUserMedia resolves, and the flush and the stop deliver no more data. *)
(***************************************************************************)

\* event.data.size of the three data events.
ScenarioSizes == <<1000, 1000, 500>>

\* A payload of n bytes.
ScenarioPayload(n) == [i \in 1..n |-> 1]

ScenarioStartCapture ==
    /\ nCmds = 0
    /\ \E s \in SenderTabInputs : StartCapture(Some(42), s)

ScenarioStartRecording ==
    /\ nCmds = 1
    /\ resp[1].st = "ok"
    /\ resp[1].streamId # None
    /\ StartRecordingWithStream(resp[1].streamId[1])

\* The next of the three data events fires on the running recorder.
ScenarioDelivery ==
    /\ mediaRecorder # 0
    /\ recorders[mediaRecorder].state = "recording"
    /\ nData < Len(ScenarioSizes)
    /\ OnDataAvailable(mediaRecorder, ScenarioPayload(ScenarioSizes[nData + 1]))
    /\ recorders' = [recorders EXCEPT ![mediaRecorder] =
                         Delivered(@, ScenarioPayload(ScenarioSizes[nData + 1]))]
    /\ UNCHANGED <<isRecording, mediaRecorder, currentStream, streams,
                   storage, storageQ, resp, acq, nCmds>>
    /\ UNCHANGED <<wav, mig>>

ScenarioStopCapture ==
    /\ nCmds = 2
    /\ nData = Len(ScenarioSizes)
    /\ StopCaptureRecording

\* A queued dataavailable event fires with nothing left to deliver.
ScenarioQueuedData(r) ==
    /\ recorders[r].events # <<>>
    /\ Head(recorders[r].events) = "dataavailable"
    /\ OnDataAvailable(r, <<>>)
    /\ recorders' = [recorders EXCEPT ![r].events = Tail(@)]
    /\ UNCHANGED <<isRecording, mediaRecorder, currentStream, streams,
                   storage, storageQ, resp, acq, nCmds>>
    /\ UNCHANGED <<wav, mig>>

NextScenario ==
    \/ ScenarioStartCapture
    \/ FirstAttemptTimer(1)
    \/ FirstAttemptGranted(1)
    \/ StartCaptureCallback
    \/ ScenarioStartRecording
    \/ GetUserMediaResolved(2)
    \/ StartPreferencesCallback
    \/ ScenarioDelivery
    \/ PersistChunks
    \/ ScenarioStopCapture
    \/ \E r \in CmdIds : ScenarioQueuedData(r)
    \/ \E r \in CmdIds : RecorderStopEvent(r)
    \/ StopCallback
    \/ RespondWithAudio
    \/ NullStreamTimer

SpecScenario == Init /\ [][NextScenario]_vars

(***************************************************************************)
(* convertAudioFormat.  Strings the function inspects are sequences of     *)
(* character codes, so that toLowerCase and includes act on characters.    *)
(***************************************************************************)

\* 'webm', 'ogg', 'wav', 'mp3' and 'audio/wav'.
WebmStr == <<119, 101, 98, 109>>
OggStr == <<111, 103, 103>>
WavStr == <<119, 97, 118>>
Mp3Str == <<109, 112, 51>>
AudioWavStr == <<97, 117, 100, 105, 111, 47, 119, 97, 118>>

\* blob.type values: 'audio/webm', 'audio/webm;codecs=opus', 'audio/ogg',
\* 'audio/wav', 'audio/mp4' and ''.
BlobTypes ==
    { <<97, 117, 100, 105, 111, 47, 119, 101, 98, 109>>,
      <<97, 117, 100, 105, 111, 47, 119, 101, 98, 109, 59, 99, 111, 100, 101,
        99, 115, 61, 111, 112, 117, 115>>,
      <<97, 117, 100, 105, 111, 47, 111, 103, 103>>,
      AudioWavStr,
      <<97, 117, 100, 105, 111, 47, 109, 112, 52>>,
      <<>> }

\* targetFormat values: 'webm', 'ogg', 'wav', 'mp3', 'WAV' and 'flac'.
TargetFormats ==
    { WebmStr, OggStr, WavStr, Mp3Str, <<87, 65, 86>>, <<102, 108, 97, 99>> }

\* The bytes of the blob handed in; the function never looks at them.
SourceBytes == <<26, 69, 223, 163>>

\* What decodeAudioData makes of the blob: a buffer, or None when it rejects.
ConvertDecoded ==
    {None} \cup { Some(b) : b \in { d \in DecodedBuffers :
                                      d.numberOfChannels = 1 /\ d.length = 1 } }

\* String.prototype.toLowerCase on ASCII text.
ToLowerCase(str) ==
    [i \in 1..Len(str) |-> IF str[i] \in 65..90 THEN str[i] + 32 ELSE str[i]]

\* String.prototype.includes.
Includes(str, sub) ==
    \E i \in 1..(Len(str) - Len(sub) + 1) : SubSeq(str, i, i + Len(sub) - 1) = sub

Resolved(blob) == [st |-> "resolved", blob |-> blob]
Rejected == [st |-> "rejected", blob |-> <<>>]

\* convertToWav(blob): rejects when decodeAudioData does, otherwise resolves
\* with the WAV blob of the decoded buffer.
ConvertToWavBlob(blob, decoded) ==
    IF decoded = None THEN Rejected
    ELSE Resolved(NewBlob(ConvertToWav(decoded[1]), AudioWavStr))

\* convertAudioFormat(blob, targetFormat), decoded being what decodeAudioData
\* makes of the blob if it is asked.
ConvertAudioFormat(blob, targetFormat, decoded) ==
    LET format == ToLowerCase(targetFormat)
    IN IF format = WebmStr /\ Includes(blob.type, WebmStr) THEN Resolved(blob)
       ELSE IF format = OggStr /\ Includes(blob.type, OggStr) THEN Resolved(blob)
       ELSE IF format = WavStr THEN ConvertToWavBlob(blob, decoded)
       ELSE IF format = Mp3Str THEN ConvertToWavBlob(blob, decoded)
       ELSE Resolved(blob)

\* convertAudioFormat(blob, targetFormat) has been called.
InitConvert ==
    /\ IdleSession
    /\ mig = NoMig
    /\ \E type \in BlobTypes, targetFormat \in TargetFormats, decoded \in ConvertDecoded :
          wav = [phase |-> "requested", by |-> "",
                 input |-> [blob |-> NewBlob(SourceBytes, type),
                            targetFormat |-> targetFormat,
                            decoded |-> decoded],
                 out |-> <<>>]

\* The promise of convertAudioFormat resolves with a blob.
ConvertAudioFormatResolves ==
    /\ wav.phase = "requested"
    /\ LET res == ConvertAudioFormat(wav.input.blob, wav.input.targetFormat,
                                     wav.input.decoded)
       IN /\ res.st = "resolved"
          /\ wav' = [wav EXCEPT !.phase = "converted", !.by = "convertAudioFormat",
                                !.out = res.blob]
    /\ UNCHANGED <<session, storage, storageQ, hostTasks, resp, acq, nCmds, nData,
                   appendLog>>
    /\ UNCHANGED mig

\* The promise of convertAudioFormat rejects.
ConvertAudioFormatRejects ==
    /\ wav.phase = "requested"
    /\ ConvertAudioFormat(wav.input.blob, wav.input.targetFormat,
                          wav.input.decoded).st = "rejected"
    /\ wav' = [wav EXCEPT !.phase = "rejected", !.by = "convertAudioFormat"]
    /\ UNCHANGED <<session, storage, storageQ, hostTasks, resp, acq, nCmds, nData,
                   appendLog>>
    /\ UNCHANGED mig

NextConvert ==
    \/ ConvertAudioFormatResolves
    \/ ConvertAudioFormatRejects

\* convertAudioFormat applied to every blob type and target format.
SpecConvert == InitConvert /\ [][NextConvert]_vars

(***************************************************************************)
(* migrateFromChromeStorage (src/src/popup/utils/storageManager.ts)        *)
(***************************************************************************)

\* recording.audioData of a legacy recording: an array of numbers.
AudioDataInputs == {<<1>>, <<258, 3>>}

\* What chrome.storage.local may hold under savedRecordings: nothing, or a
\* list of up to MaxRecordings recordings with ids of their own.
SavedRecordingsInputs ==
    {None} \cup
    {Some([i \in 1..n |-> [id |-> RecordingIds[i], name |-> "legacy",
                            audioData |-> data[i]]]) :
        n \in 0..MaxRecordings, data \in [1..MaxRecordings -> AudioDataInputs]}

\* The record saveRecording puts for a legacy recording: the metadata (the
\* id is its key; of the other fields the name is kept here) and
\* new Uint8Array(recording.audioData).buffer.
MigratedRecord(recording) ==
    [id |-> recording.id, name |-> recording.name,
     audioData |-> NewUint8Array(recording.audioData)]

\* store.put(recording) in the object store whose keyPath is 'id'.
StorePut(db, record) == [db EXCEPT ![record.id] = Some(record)]

InitMigrate ==
    /\ IdleSession
    /\ wav = NoWav
    /\ \E saved \in SavedRecordingsInputs :
          mig = [NoMig EXCEPT !.phase = "called", !.saved = saved]

\* Every step of the migration leaves the session manager alone.
MigrateFrame ==
    UNCHANGED <<session, storage, storageQ, hostTasks, resp, acq, nCmds, nData,
                appendLog, wav>>

\* migrateFromChromeStorage(): chrome.storage.local.get(['savedRecordings']).
MigrateFromChromeStorage ==
    /\ mig.phase = "called"
    /\ mig' = [mig EXCEPT !.phase = "reading", !.read = mig.saved]
    /\ MigrateFrame

\* The callback of the read with chrome.runtime.lastError set: reject.
MigrateReadFails ==
    /\ mig.phase = "reading"
    /\ mig' = [mig EXCEPT !.phase = "rejected"]
    /\ MigrateFrame

\* The callback of the read: result.savedRecordings || []; with nothing to
\* migrate resolve(0), else the loop starts and awaits its first
\* saveRecording.
MigrateReadCallback ==
    /\ mig.phase = "reading"
    /\ LET savedRecordings == IF mig.read = None THEN <<>> ELSE mig.read[1]
       IN mig' = IF Len(savedRecordings) = 0
                 THEN [mig EXCEPT !.phase = "resolved", !.result = Some(0)]
                 ELSE [mig EXCEPT !.phase = "saving", !.list = savedRecordings,
                                  !.next = 1]
    /\ MigrateFrame

\* The loop after one recording: on to the next one; after the last one,
\* chrome.storage.local.remove(['savedRecordings']) when migratedCount > 0,
\* resolve(0) otherwise.
AfterSave(m) ==
    IF m.next < Len(m.list) THEN [m EXCEPT !.next = @ + 1]
    ELSE IF m.migratedCount > 0
         THEN [m EXCEPT !.phase = "removing", !.saved = None]
         ELSE [m EXCEPT !.phase = "resolved", !.result = Some(0)]

\* db.transaction([STORE_NAME], 'readwrite') with one request that succeeds:
\* readwrite transactions on one store run one after the other, so the
\* request is served when no other transaction is open; the store holds the
\* change from then on, and the transaction stays open until it commits or
\* aborts.  The promise resolves in request.onsuccess, before that.
Transact(m, db) == [m EXCEPT !.db = db, !.tx = Some(m.db)]

\* await saveRecording(metadata, arrayBuffer) resolves (request.onsuccess
\* of the put): the record is in the object store, migratedCount++.
SaveRecordingResolves ==
    /\ mig.phase = "saving"
    /\ mig.tx = None
    /\ mig' = AfterSave([Transact(mig, StorePut(mig.db,
                                                MigratedRecord(mig.list[mig.next])))
                            EXCEPT !.migratedCount = @ + 1])
    /\ MigrateFrame

\* await saveRecording(metadata, arrayBuffer) rejects (the database does not
\* open, the put fails): the catch block logs and keeps the error.
SaveRecordingRejects ==
    /\ mig.phase = "saving"
    /\ mig' = AfterSave([mig EXCEPT !.errors = @ + 1])
    /\ MigrateFrame

\* The open transaction commits: its change stays.
TransactionCommits ==
    /\ mig.tx # None
    /\ mig' = [mig EXCEPT !.tx = None]
    /\ MigrateFrame

\* The open transaction aborts at its commit (the quota is exceeded, the
\* disk fails): the store goes back to what it held before; no code of the
\* module listens to the transaction, so nothing else changes.
TransactionAborts ==
    /\ mig.tx # None
    /\ mig' = [mig EXCEPT !.db = mig.tx[1], !.tx = None]
    /\ MigrateFrame

\* The metadata and bytes saveRecording is called with from outside the
\* migration.
SaveRecordingInputs ==
    {[id |-> id, name |-> "new", audioData |-> <<7>>] : id \in StoreKeys}

\* A call from outside the migration has settled.
Settled(m, op, id, how) ==
    [m EXCEPT !.calls = @ + 1, !.last = Some([op |-> op, id |-> id, settled |-> how])]

\* saveRecording(metadata, audioData) called from outside the migration
\* resolves: store.put({...metadata, audioData}).
SaveRecording(record) ==
    /\ mig.calls < MaxStoreCalls
    /\ mig.tx = None
    /\ mig' = Settled(Transact(mig, StorePut(mig.db, record)),
                      "saveRecording", record.id, "resolved")
    /\ MigrateFrame

\* deleteRecording(id) resolves: store.delete(id), whether or not a record
\* has that key.
DeleteRecording(id) ==
    /\ mig.calls < MaxStoreCalls
    /\ mig.tx = None
    /\ mig' = Settled(Transact(mig, [mig.db EXCEPT ![id] = None]),
                      "deleteRecording", id, "resolved")
    /\ MigrateFrame

\* clearAllRecordings() resolves: store.clear().
ClearAllRecordings ==
    /\ mig.calls < MaxStoreCalls
    /\ mig.tx = None
    /\ mig' = Settled(Transact(mig, EmptyStore), "clearAllRecordings", "", "resolved")
    /\ MigrateFrame

\* updateRecordingName(id, newName): store.get(id), then with a record
\* recording.name = newName and store.put(recording) in the same
\* transaction; without one reject(new Error('Recording not found')).
UpdateRecordingName(id, newName) ==
    /\ mig.calls < MaxStoreCalls
    /\ mig.tx = None
    /\ mig' = IF mig.db[id] # None
              THEN Settled(Transact(mig, [mig.db EXCEPT ![id] =
                                              Some([@[1] EXCEPT !.name = newName])]),
                           "updateRecordingName", id, "resolved")
              ELSE Settled(Transact(mig, mig.db),
                           "updateRecordingName", id, "Recording not found")
    /\ MigrateFrame

\* A call from outside the migration rejects (the database does not open,
\* the request fails): the store keeps what it held.
StoreCallRejects(op, id) ==
    /\ mig.calls < MaxStoreCalls
    /\ mig' = Settled(mig, op, id, "rejected")
    /\ MigrateFrame

\* The callback of chrome.storage.local.remove: resolve(migratedCount).
MigrateRemoveCallback ==
    /\ mig.phase = "removing"
    /\ mig' = [mig EXCEPT !.phase = "resolved", !.result = Some(mig.migratedCount)]
    /\ MigrateFrame

\* The calls of the store's functions from outside the migration.
StoreCalls ==
    \/ \E record \in SaveRecordingInputs : SaveRecording(record)
    \/ \E id \in StoreKeys : DeleteRecording(id)
    \/ ClearAllRecordings
    \/ \E id \in StoreKeys : UpdateRecordingName(id, "renamed")
    \/ \E op \in {"saveRecording", "deleteRecording", "updateRecordingName"},
          id \in StoreKeys : StoreCallRejects(op, id)
    \/ StoreCallRejects("clearAllRecordings", "")

NextMigrate ==
    \/ MigrateFromChromeStorage
    \/ MigrateReadFails
    \/ MigrateReadCallback
    \/ SaveRecordingResolves
    \/ SaveRecordingRejects
    \/ MigrateRemoveCallback
    \/ TransactionCommits
    \/ TransactionAborts
    \/ StoreCalls

\* The migration applied to every legacy list, with calls of the store's
\* other functions at any moment.
SpecMigrate == InitMigrate /\ [][NextMigrate]_vars

(***************************************************************************)
(* Properties                                                              *)
(***************************************************************************)

RECURSIVE FlattenLog(_)
\* The concatenation of a list of byte sequences, first to last.
FlattenLog(log) == IF log = <<>> THEN <<>> ELSE Head(log) \o FlattenLog(Tail(log))

\* Command c is answered in this step.
AnsweredNow(c) == resp[c].st \in {"unused", "pending"} /\ resp'[c].st \in {"ok", "error"}

\* The elements of a sequence.
Range(seq) == {seq[i] : i \in 1..Len(seq)}

\* C1: the bytes that stopCapture and getRecordingData return are the
\* concatenation of the chunks appended since the chunk sequence was last
\* reset, in the order they were appended; the answer is null only when
\* nothing was appended.
C1_ChunkOrder ==
    [][ /\ \A t \in hostTasks' \ hostTasks :
             t.kind = "arrayBuffer.respond" => t.data = Some(FlattenLog(appendLog))
        /\ \A c \in CmdIds :
             (AnsweredNow(c) /\ resp'[c].action \in {"stopCapture", "getRecordingData"}
                 /\ resp'[c].st = "ok")
             => IF resp'[c].audio = None
                THEN appendLog = <<>>
                ELSE \E t \in hostTasks : /\ t.kind = "arrayBuffer.respond"
                                          /\ t.cmd = c
                                          /\ t.data = resp'[c].audio
      ]_vars

\* C1 witness: a stop has returned three bytes that two appends produced, the
\* larger byte first.
C1_Witness ==
    \E c \in CmdIds : /\ resp[c].action = "stopCapture"
                      /\ resp[c].st = "ok"
                      /\ resp[c].audio = Some(<<2, 1, 2>>)

\* C2: a startRecordingWithStream command that arrived while recorder r was
\* Capturing does not take over while r is still running: it does not become
\* the script's recorder or stream and starts no second recorder.
C2_StartWhileCapturing ==
    \A c \in CmdIds :
        (/\ resp[c].action = "startRecordingWithStream"
         /\ resp[c].during # 0
         /\ recorders[resp[c].during].state = "recording")
        => /\ mediaRecorder # c
           /\ currentStream # c
           /\ recorders[c].state # "recording"

\* Beside the answered stop c nothing is left that starts or feeds a session:
\* every other command is a query, an answered stop, an add-chunk that came
\* before c, or an answered start that came before c and whose recorder has
\* been stopped.
NothingStartedSince(c) ==
    \A d \in CmdIds \ {c} :
        \/ resp[d].st = "unused"
        \/ resp[d].action \in {"getRecordingState", "getRecordingData"}
        \/ resp[d].action = "stopCapture" /\ resp[d].st \in {"ok", "error"}
        \/ d < c /\ resp[d].action = "addRecordingChunk"
        \/ /\ d < c
           /\ resp[d].action = "startRecordingWithStream"
           /\ resp[d].st = "ok"
           /\ recorders[d].state = "inactive"

\* The four recording keys are absent from the store.
RecordingKeysAbsent ==
    /\ storage.recordingStreamId = None
    /\ storage.recordingTabId = None
    /\ storage.recordingStartTime = None
    /\ storage.recordingChunks = None

\* C3: once a stopCapture has been answered, and until the next start or
\* add-chunk command, the flag is false, no chunk is in memory and the four
\* recording keys are absent.
C3_StopLeavesNothing ==
    \A c \in CmdIds :
        (resp[c].action = "stopCapture" /\ resp[c].st = "ok" /\ NothingStartedSince(c))
        => /\ ~isRecording
           /\ recordingChunks = <<>>
           /\ RecordingKeysAbsent

\* The stopCapture commands so far.
Stops == {c \in CmdIds : resp[c].action = "stopCapture"}

\* C4: in a cycle that consists of the start of recorder r and of stopCapture
\* commands only, in which the recorder delivered data, once every stop is
\* answered exactly one answer carries the audio.
C4_DeliveredExactlyOnce ==
    \A r \in CmdIds :
        (/\ recorders[r].state = "inactive"
         /\ \A d \in CmdIds \ {r} : resp[d].action \in {"", "stopCapture"}
         /\ nData > 0
         /\ Stops # {}
         /\ \A c \in Stops : resp[c].st \in {"ok", "error"})
        => Cardinality({c \in Stops : resp[c].st = "ok" /\ resp[c].audio # None}) = 1

\* Something is in flight that will answer command c: a promise, timer or
\* storage callback of its own, or a stop event that will reach its handler.
HasContinuation(c) ==
    \/ \E t \in hostTasks : t.cmd = c
    \/ \E i \in 1..Len(storageQ) : storageQ[i].cmd = c \/ c \in Range(storageQ[i].below)
    \/ \E r \in CmdIds : /\ c \in Range(recorders[r].onstop)
                         /\ "stop" \in Range(recorders[r].events)

\* C9: a command that has not been answered has something in flight that
\* will answer it.
C9_EveryCommandAnswered ==
    \A c \in CmdIds : resp[c].st = "pending" => HasContinuation(c)

\* C10: a stopCapture that produced no byte is answered with success and a
\* null payload, never with an error and never with an empty payload that is
\* not null.
C10_EmptyStopIsNull ==
    \A c \in CmdIds :
        (resp[c].action = "stopCapture" /\ resp[c].st = "ok" /\ resp[c].audio # None)
        => Len(resp[c].audio[1]) > 0

\* The step is the callback of the read that kind names.
CallbackOf(kind) ==
    /\ storageQ # <<>>
    /\ Head(storageQ).kind = kind
    /\ storageQ' = Tail(storageQ)

\* C7: a snapshot that is being persisted restores to the chunks it was
\* taken from, byte for byte and in order, and the onStartup callback of a
\* process with nothing in memory leaves exactly the stored byte sequences in
\* memory, or nothing when no snapshot is stored.
C7_RestoreRoundTrip ==
    [][ /\ \A t \in hostTasks' \ hostTasks :
             t.kind = "arrayBuffer.persist"
             => /\ Len(RestoreChunks(t.data)) = Len(recordingChunks')
                /\ \A i \in 1..Len(t.data) :
                      RestoreChunks(t.data)[i].bytes = recordingChunks'[i].bytes
        /\ (CallbackOf("onStartup.get") /\ recordingChunks = <<>>)
           => LET stored == Head(storageQ).read.recordingChunks
              IN IF stored = None
                 THEN recordingChunks' = <<>>
                 ELSE /\ Len(recordingChunks') = Len(stored[1])
                      /\ \A i \in 1..Len(stored[1]) :
                            recordingChunks'[i].bytes = stored[1][i]
      ]_vars

\* C7 witness: after a restart two different chunks are back in memory, as
\* stored.
C7_Witness ==
    \E c \in CmdIds :
        /\ resp[c].action = "restart"
        /\ resp[c].st = "ok"
        /\ storage.recordingChunks # None
        /\ Len(recordingChunks) = 2
        /\ recordingChunks[1].bytes # recordingChunks[2].bytes
        /\ ChunksArray(recordingChunks) = storage.recordingChunks[1]

\* C8: getRecordingState answers hasRecording: true exactly when a chunk is
\* in memory as it answers or the snapshot it read from the store is not
\* empty, the snapshot it reads is the one stored as the query arrives, and
\* neither the query nor its callback changes the session or the store.
C8_HasRecording ==
    [][ /\ CallbackOf("getRecordingState")
           => LET t == Head(storageQ)
              IN /\ resp'[t.cmd].st = "ok"
                 /\ (resp'[t.cmd].hasRecording = "true")
                      <=> \/ Len(recordingChunks) > 0
                          \/ /\ t.read.recordingChunks # None
                             /\ Len(t.read.recordingChunks[1]) > 0
                 /\ UNCHANGED <<session, storage>>
        /\ \A c \in CmdIds :
             (resp[c].st = "unused" /\ resp'[c].action = "getRecordingState")
             => /\ UNCHANGED <<session, storage>>
                /\ storageQ'[Len(storageQ')].read.recordingChunks = storage.recordingChunks
      ]_vars

\* C8 witness: a process restarted with a stored snapshot has answered
\* hasRecording: true.
C8_Witness ==
    \E c, d \in CmdIds :
        /\ d < c
        /\ resp[d].action = "restart"
        /\ resp[c].action = "getRecordingState"
        /\ resp[c].st = "ok"
        /\ resp[c].hasRecording = "true"
        /\ \A e \in CmdIds : e > d => resp[e].action \in {"", "getRecordingState"}

\* No host task of command c is pending.
NothingPendingFor(c) == \A t \in hostTasks : t.cmd # c

\* C5: captureTabAudio calls getMediaStreamId at most twice, and when the
\* retry fails too it rejects with the retry's error and leaves no timer or
\* call behind.
C5_RetryOnce ==
    \A c \in CmdIds :
        /\ acq[c].calls <= 2
        /\ Len(acq[c].outcomes) <= acq[c].calls
        /\ (Len(acq[c].outcomes) = 2 /\ acq[c].outcomes[2] # "")
           => /\ resp[c].st = "error"
              /\ resp[c].error = IF acq[c].outcomes[2] = "no stream id"
                                 THEN "Failed to get media stream ID"
                                 ELSE acq[c].outcomes[2]
              /\ NothingPendingFor(c)

\* C5 witness: two conflicts in a row, the second one surfaced.
C5_Witness ==
    \E c \in CmdIds :
        /\ acq[c].calls = 2
        /\ acq[c].outcomes = <<"Cannot capture a tab with an active stream.",
                               "Tab has an active stream">>
        /\ resp[c].st = "error"
        /\ resp[c].error = "Tab has an active stream"

\* C6: a first attempt that fails with an error that is not about an active
\* stream, or that yields no stream id, is not retried: the command is
\* answered {success: false, error} with that failure after the one call.
C6_NoRetryOnOtherFailure ==
    \A c \in CmdIds :
        (/\ Len(acq[c].outcomes) >= 1
         /\ acq[c].outcomes[1] # ""
         /\ ~IncludesActiveStream(acq[c].outcomes[1]))
        => /\ acq[c].calls = 1
           /\ resp[c].st = "error"
           /\ resp[c].error = IF acq[c].outcomes[1] = "no stream id"
                              THEN "Failed to get media stream ID"
                              ELSE acq[c].outcomes[1]
           /\ NothingPendingFor(c)

\* C6 witness: a first attempt was refused for another reason and surfaced.
C6_Witness ==
    \E c \in CmdIds :
        /\ acq[c].outcomes = <<"Extension has not been invoked for the current page">>
        /\ resp[c].st = "error"
        /\ resp[c].error = "Extension has not been invoked for the current page"

\* C11: a disconnect of the popup's port changes nothing of the session, of
\* the store or of what is pending; a session that was Capturing is still
\* Capturing with the same running recorder.
C11_DisconnectKeepsSession ==
    [][ \A c \in CmdIds :
          (resp[c].st = "unused" /\ resp'[c].action = "disconnect")
          => /\ UNCHANGED <<session, storage, storageQ, hostTasks, nData, appendLog>>
             /\ resp'[c].during = CapturingNow
             /\ CapturingNow # 0 => /\ isRecording'
                                    /\ mediaRecorder' = CapturingNow
                                    /\ recorders'[CapturingNow].state = "recording"
      ]_vars

\* C11 witness: the port went away while recorder 1 was Capturing, and the
\* stop that followed returned what the recorder delivered.
C11_Witness ==
    /\ resp[2].action = "disconnect"
    /\ resp[2].during = 1
    /\ resp[3].action = "stopCapture"
    /\ resp[3].st = "ok"
    /\ resp[3].audio = Some(<<1, 2>>)

\* This step is the clearRecording command c.
ClearStep(c) == resp[c].st = "unused" /\ resp'[c].action = "clearRecording"

\* C12: clearRecording answers success and leaves the four recording keys
\* absent, whether or not a recording exists, and a second clearRecording
\* issued right after it would leave the globals and the store exactly as
\* the first one left them.
C12_ClearIdempotent ==
    [][ \A c \in CmdIds :
          ClearStep(c)
          => /\ resp'[c].st = "ok"
             /\ RecordingKeysAbsent'
             /\ ClearRecordingOf(Now') = Now'
             /\ ClearRecordingOf(ClearRecordingOf(Now)) = ClearRecordingOf(Now)
      ]_vars

\* C12 witness: clearRecording was issued twice in a row with no recording.
C12_Witness ==
    /\ resp[1].action = "clearRecording"
    /\ resp[2].action = "clearRecording"
    /\ resp[1].st = "ok"
    /\ resp[2].st = "ok"
    /\ RecordingKeysAbsent

\* Recorder r was running when the clearRecording command c stopped it, and
\* nothing but queries and port events came after c.
StoppedByClear(r, c) ==
    /\ r < c
    /\ resp[r].action = "startRecordingWithStream"
    /\ resp[c].action = "clearRecording"
    /\ recorders[r].state = "inactive"
    /\ \A d \in CmdIds :
          /\ (r < d /\ d < c)
             => resp[d].action \in {"getRecordingState", "getRecordingData",
                                    "addRecordingChunk", "disconnect"}
          /\ d > c
             => resp[d].action \in {"", "getRecordingState", "getRecordingData",
                                    "disconnect"}

\* This step delivers a queued dataavailable event of recorder r.
QueuedDataStep(r) ==
    /\ recorders[r].events # <<>>
    /\ Head(recorders[r].events) = "dataavailable"
    /\ recorders'[r].events = Tail(recorders[r].events)

\* C13: the clearRecording step leaves the flag false, no recorder, no
\* stream, no chunk in memory and the four recording keys absent, whatever
\* the state it is issued in, and a data event that the recorder it stopped
\* delivers afterwards neither adds a chunk nor starts a snapshot write.
C13_ClearResetsSession ==
    [][ /\ \A c \in CmdIds :
             ClearStep(c)
             => /\ ~isRecording'
                /\ mediaRecorder' = 0
                /\ currentStream' = 0
                /\ recordingChunks' = <<>>
                /\ RecordingKeysAbsent'
        /\ \A r, c \in CmdIds :
             (StoppedByClear(r, c) /\ QueuedDataStep(r))
             => /\ recordingChunks' = recordingChunks
                /\ hostTasks' \subseteq hostTasks
      ]_vars

\* This step is a startRecordingWithStream command c that carries a stream id
\* and finds no navigator.mediaDevices.getUserMedia to call.
StartWithoutGetUserMediaStep(c) ==
    /\ resp[c].st = "unused"
    /\ resp'[c].action = "startRecordingWithStream"
    /\ resp'[c].arg # None
    /\ HostTask("getUserMedia", c, <<>>) \notin hostTasks'

\* This step is the rejection of command c's getUserMedia call.
GetUserMediaRejectedStep(c) ==
    /\ HostTask("getUserMedia", c, <<>>) \in hostTasks
    /\ HostTask("getUserMedia", c, <<>>) \notin hostTasks'
    /\ streams'[c] = "none"
    /\ resp'[c].st # "lost"

\* C14: when startRecordingWithStream cannot obtain the stream, because
\* getUserMedia is missing or because it rejects, the command is answered
\* with an error, an idle session stays idle and the store is not written.
C14_AcquisitionFailureSurfaced ==
    [][ \A c \in CmdIds :
          (StartWithoutGetUserMediaStep(c) \/ GetUserMediaRejectedStep(c))
          => /\ resp'[c].st = "error"
             /\ ~isRecording => ~isRecording'
             /\ storage' = storage
      ]_vars

\* C15: the script holds a stream exactly when its recording flag is set.
C15_StreamIffRecording == (currentStream # 0) <=> isRecording

\* This step is the grant of a stream id to command c.
GrantStep(c) == acq'[c].outcomes = Append(acq[c].outcomes, "")

\* C16: the step in which getMediaStreamId grants a stream id, at the first
\* attempt or at the retry, stores that token and the tab captureTabAudio
\* was called for (message.tabId when one was sent); startCapture then
\* answers success with that token and method 'tab'; and no other step of
\* the acquirer, a failure included, writes the store.
C16_StartCaptureStoresToken ==
    [][ /\ \A c \in CmdIds :
             GrantStep(c)
             => /\ storage'.recordingStreamId =
                       Some(GrantedToken(c, Len(acq'[c].outcomes)))
                /\ storage'.recordingTabId = Some(acq[c].tab)
                /\ acq[c].tab # 0
                /\ (resp[c].arg # None /\ resp[c].arg[1] # 0)
                   => acq[c].tab = resp[c].arg[1]
        /\ \A c \in CmdIds :
             (AnsweredNow(c) /\ resp'[c].action = "startCapture" /\ resp'[c].st = "ok")
             => /\ acq[c].outcomes # <<>>
                /\ acq[c].outcomes[Len(acq[c].outcomes)] = ""
                /\ resp'[c].streamId = Some(GrantedToken(c, Len(acq[c].outcomes)))
                /\ resp'[c].method = "tab"
        /\ (\A c \in CmdIds : ~GrantStep(c)) => storage' = storage
      ]_vars

\* C16 witness: a capture of tab 42 was granted at the retry and answered
\* with the retry's token.
C16_Witness ==
    /\ acq[1].outcomes = <<"Tab has an active stream", "">>
    /\ resp[1].st = "ok"
    /\ resp[1].streamId = Some("a2")
    /\ resp[1].method = "tab"
    /\ storage.recordingStreamId = Some("a2")
    /\ storage.recordingTabId = Some(42)

\* This step is the addRecordingChunk command c.
AddChunkStep(c) == resp[c].st = "unused" /\ resp'[c].action = "addRecordingChunk"

\* This step completes a snapshot write that was waiting for its bytes.
SnapshotWriteStep(t) ==
    /\ t \in hostTasks \ hostTasks'
    /\ t.kind = "arrayBuffer.persist"
    /\ resp' = resp

\* C17: addRecordingChunk answers success; with a chunk it appends the
\* chunk's bytes at the end of the chunks in memory and changes nothing
\* else, its callback serialises the whole sequence then in memory without
\* the stored value (one more write is on its way, or, the memory being
\* empty, the empty list is written at once), and the write, when the store
\* takes it, replaces recordingChunks by that sequence; without a chunk
\* nothing changes.
C17_AddRecordingChunk ==
    [][ /\ \A c \in CmdIds :
             AddChunkStep(c)
             => /\ resp'[c].st = "ok"
                /\ UNCHANGED <<isRecording, mediaRecorder, currentStream, recorders,
                               streams, storage, hostTasks>>
                /\ IF resp'[c].arg = None
                   THEN UNCHANGED <<recordingChunks, storageQ>>
                   ELSE recordingChunks' =
                            Append(recordingChunks,
                                   [bytes |-> NewUint8Array(resp'[c].arg[1]),
                                    type |-> "audio/webm"])
        /\ CallbackOf("addRecordingChunk.get")
           => /\ UNCHANGED session
              /\ IF recordingChunks = <<>>
                 THEN /\ storage' = [storage EXCEPT !.recordingChunks = Some(<<>>)]
                      /\ hostTasks' = hostTasks
                 ELSE /\ storage' = storage
                      /\ \E t \in hostTasks' \ hostTasks :
                            /\ hostTasks' = hostTasks \cup {t}
                            /\ t.kind = "arrayBuffer.persist"
                            /\ Len(t.data) = Len(recordingChunks)
                            /\ \A i \in 1..Len(t.data) :
                                  t.data[i] = recordingChunks[i].bytes
        /\ \A t \in hostTasks :
             SnapshotWriteStep(t)
             => \/ storage' = storage
                \/ storage' = [storage EXCEPT !.recordingChunks = Some(t.data)]
      ]_vars

\* C17 witness: two chunks were added, [258, 1] and then [], and the store
\* holds both, in that order, as the memory does.
C17_Witness ==
    /\ resp[1].action = "addRecordingChunk"
    /\ resp[2].action = "addRecordingChunk"
    /\ storage.recordingChunks = Some(<< <<2, 1>>, <<>> >>)
    /\ ChunksArray(recordingChunks) = << <<2, 1>>, <<>> >>
    /\ hostTasks = {}

\* C18: a startRecordingWithStream command without a stream id is answered
\* {success: false, error: 'Stream ID required'} in the step it arrives in,
\* and that step changes neither the globals nor the store nor what is
\* pending.
C18_StreamIdRequired ==
    [][ \A c \in CmdIds :
          (/\ resp[c].st = "unused"
           /\ resp'[c].action = "startRecordingWithStream"
           /\ resp'[c].arg = None)
          => /\ resp'[c].st = "error"
             /\ resp'[c].error = "Stream ID required"
             /\ UNCHANGED <<session, storage, storageQ, hostTasks>>
      ]_vars

\* C18 witness: a start without a stream id was refused while recorder 1 was
\* Capturing, and recorder 1 is still Capturing.
C18_Witness ==
    /\ resp[2].action = "startRecordingWithStream"
    /\ resp[2].arg = None
    /\ resp[2].st = "error"
    /\ resp[2].error = "Stream ID required"
    /\ resp[2].during = 1
    /\ Capturing(1)

\* C19: a snapshot write that the store refuses changes neither the chunks
\* in memory nor the recorder nor anything pending; the chunks in memory are
\* at every step the chunks appended since the last reset; and every payload
\* a stopCapture starts to send is their concatenation.
C19_WriteFailureKeepsRecording ==
    [][ /\ \A t \in hostTasks :
             (SnapshotWriteStep(t) /\ storage' = storage)
             => /\ UNCHANGED <<session, storageQ, nData, appendLog>>
                /\ hostTasks' = hostTasks \ {t}
        /\ ChunksArray(recordingChunks') = appendLog'
        /\ \A t \in hostTasks' \ hostTasks :
             (t.kind = "arrayBuffer.respond" /\ resp[t.cmd].action = "stopCapture")
             => t.data = Some(ConcatBytes(recordingChunks))
      ]_vars

\* C19 witness: recorder 1 is Capturing with two chunks in memory; the write
\* of the first snapshot is gone and the store holds no snapshot, and the
\* second chunk was appended all the same, its write still pending.
C19_Witness ==
    /\ Capturing(1)
    /\ Len(recordingChunks) = 2
    /\ storage.recordingChunks = None
    /\ {t \in hostTasks : t.kind = "arrayBuffer.persist"}
          = {HostTask("arrayBuffer.persist", 0, ChunksArray(recordingChunks))}

\* The 16-bit sample stored at sample index k (from 0) of a WAV file's data,
\* read little-endian from byte 44 + 2k on.
SampleAt(bytes, k) == ToInt16(bytes[44 + 2 * k + 1] + 256 * bytes[44 + 2 * k + 2])

\* C20: in the output of either encoder the sample of channel c at frame i
\* is the 16-bit sample at index i * channelCount + c, for every frame and
\* every channel, and the data holds nothing else.
C20_ChannelMinorInterleaving ==
    wav.phase = "encoded"
    => LET buf == wav.input
           n == buf.numberOfChannels
       IN /\ Len(wav.out) = 44 + 2 * buf.length * n
          /\ \A i \in 0..(buf.length - 1), c \in 0..(n - 1) :
                SampleAt(wav.out, i * n + c) = ToPcm16(buf.channels[c + 1][i + 1])

\* C20 witness: a stereo buffer of two frames, whose four samples all
\* differ, was encoded by convertToWav.
C20_Witness ==
    /\ wav.phase = "encoded"
    /\ wav.by = "convertToWav"
    /\ wav.input.numberOfChannels = 2
    /\ wav.input.length = 2
    /\ Cardinality({SampleAt(wav.out, k) : k \in 0..3}) = 4

\* The unsigned little-endian numbers of 2 and of 4 bytes that start at byte
\* offset off (from 0) of a file.
ReadUint16(bytes, off) == bytes[off + 1] + 256 * bytes[off + 2]
ReadUint32(bytes, off) ==
    bytes[off + 1] + 256 * bytes[off + 2] + 65536 * bytes[off + 3]
        + 16777216 * bytes[off + 4]

\* C21: the output of either encoder has 44 + frames * channels * 2 bytes,
\* every byte a value of 0..255, and its first 44 bytes are 'RIFF', 36 + data
\* size, 'WAVE', 'fmt ', 16, format code 1, the channel count, the sample
\* rate, the byte rate sampleRate * blockAlign, the block align channels * 2,
\* 16 bits per sample, 'data' and the data size frames * channels * 2, the
\* numbers little-endian at offsets 4, 16, 20, 22, 24, 28, 32, 34 and 40.
C21_WavHeader ==
    wav.phase = "encoded"
    => LET buf == wav.input
           out == wav.out
           blockAlign == buf.numberOfChannels * 2
           dataSize == buf.length * buf.numberOfChannels * 2
       IN /\ Len(out) = 44 + dataSize
          /\ \A k \in 1..Len(out) : out[k] \in 0..255
          /\ SubSeq(out, 1, 4) = <<82, 73, 70, 70>>
          /\ ReadUint32(out, 4) = 36 + dataSize
          /\ SubSeq(out, 9, 12) = <<87, 65, 86, 69>>
          /\ SubSeq(out, 13, 16) = <<102, 109, 116, 32>>
          /\ ReadUint32(out, 16) = 16
          /\ ReadUint16(out, 20) = 1
          /\ ReadUint16(out, 22) = buf.numberOfChannels
          /\ ReadUint32(out, 24) = buf.sampleRate
          /\ ReadUint32(out, 28) = buf.sampleRate * blockAlign
          /\ ReadUint16(out, 32) = blockAlign
          /\ ReadUint16(out, 34) = 16
          /\ SubSeq(out, 37, 40) = <<100, 97, 116, 97>>
          /\ ReadUint32(out, 40) = dataSize

\* C21 witness: convertToWav has encoded two stereo frames at 44100 Hz into
\* 52 bytes.
C21_Witness ==
    /\ wav.phase = "encoded"
    /\ wav.by = "convertToWav"
    /\ wav.input.sampleRate = 44100
    /\ wav.input.numberOfChannels = 2
    /\ wav.input.length = 2
    /\ Len(wav.out) = 52
    /\ SubSeq(wav.out, 25, 28) = <<68, 172, 0, 0>>

\* C22: every 16-bit sample either encoder writes lies in -32768..32767; an
\* input at or below -1 gives -32768, an input at or above +1 gives 32767,
\* 0 gives 0, an input strictly between -1 and 0 gives the input times 32768
\* and one strictly between 0 and +1 the input times 32767, the fraction
\* dropped in both cases (inputs are in units of 1/SampleUnit).
C22_ClampedAsymmetricScale ==
    wav.phase = "encoded"
    => LET buf == wav.input
           n == buf.numberOfChannels
       IN \A i \in 0..(buf.length - 1), c \in 0..(n - 1) :
            LET x == buf.channels[c + 1][i + 1]
                y == SampleAt(wav.out, i * n + c)
            IN /\ y \in -32768..32767
               /\ x <= -SampleUnit => y = -32768
               /\ x >= SampleUnit => y = 32767
               /\ x = 0 => y = 0
               /\ (-SampleUnit < x /\ x < 0)
                    => y = -(((-x) * 32768) \div SampleUnit)
               /\ (0 < x /\ x < SampleUnit) => y = (x * 32767) \div SampleUnit

\* C22 witness: blobToWav has encoded a stereo buffer holding -1.5, +1, 0
\* and 0.75, into -32768, 32767, 0 and 24575.
C22_Witness ==
    /\ wav.phase = "encoded"
    /\ wav.by = "blobToWav"
    /\ wav.input.channels = << <<-98304, 65536>>, <<0, 49152>> >>
    /\ SampleAt(wav.out, 0) = -32768
    /\ SampleAt(wav.out, 1) = 0
    /\ SampleAt(wav.out, 2) = 32767
    /\ SampleAt(wav.out, 3) = 24575

\* A reader of 16-bit PCM WAV files: the channel count and the sample rate of
\* the header, the frame count the data size and the block align give, and
\* the sample of channel c at frame i (both from 0) as a 16-bit integer; the
\* reader hands out that integer divided by 32768.
WavReaderChannels(bytes) == ReadUint16(bytes, 22)
WavReaderSampleRate(bytes) == ReadUint32(bytes, 24)
WavReaderFrames(bytes) == ReadUint32(bytes, 40) \div ReadUint16(bytes, 32)
WavReaderSample(bytes, i, c) == SampleAt(bytes, i * WavReaderChannels(bytes) + c)

\* One quantization step, 1/32768, in units of 1/SampleUnit.
QuantizationStep == SampleUnit \div 32768

\* C23: a WAV reader gets from the output of either encoder the channel
\* count, the sample rate and the frame count of the encoded buffer, and for
\* every sample of the buffer that lies in [-1, 1] a value that differs from
\* it by at most one quantization step.
C23_RoundTrip ==
    wav.phase = "encoded"
    => LET buf == wav.input
       IN /\ WavReaderChannels(wav.out) = buf.numberOfChannels
          /\ WavReaderSampleRate(wav.out) = buf.sampleRate
          /\ WavReaderFrames(wav.out) = buf.length
          /\ \A i \in 0..(buf.length - 1), c \in 0..(buf.numberOfChannels - 1) :
                LET x == buf.channels[c + 1][i + 1]
                    decoded == WavReaderSample(wav.out, i, c) * QuantizationStep
                IN (-SampleUnit <= x /\ x <= SampleUnit)
                   => /\ decoded - x <= QuantizationStep
                      /\ x - decoded <= QuantizationStep

\* C24: convertAudioFormat rejects for no target format, only when the blob
\* cannot be decoded; the blob it resolves with has a type that includes the
\* requested format or is 'audio/wav'; for target mp3 it is the blob target
\* wav gives; and a blob whose type includes the requested webm or ogg is
\* returned as it is.
C24_RequestedContainerOrWav ==
    LET blob == wav.input.blob
        format == ToLowerCase(wav.input.targetFormat)
    IN /\ (wav.phase = "rejected" /\ wav.by = "convertAudioFormat")
            => wav.input.decoded = None
       /\ (wav.phase = "converted" /\ wav.by = "convertAudioFormat")
            => /\ Includes(wav.out.type, format) \/ wav.out.type = AudioWavStr
               /\ format = Mp3Str
                    => wav.out = ConvertAudioFormat(blob, WavStr, wav.input.decoded).blob
               /\ (format \in {WebmStr, OggStr} /\ Includes(blob.type, format))
                    => wav.out = blob

\* C25: in the scenario of SpecScenario (startCapture on tab 42 answered
\* with stream id 'abc', startRecordingWithStream('abc'), data events of
\* 1000, 1000 and 500 bytes, stopCapture) the answer of stopCapture carries
\* an audio payload of 44 + 2500 bytes and hasData: true.
C25_ScenarioStopResponse ==
    (/\ resp[1].action = "startCapture" /\ resp[1].streamId = Some("abc")
     /\ resp[2].action = "startRecordingWithStream" /\ resp[2].arg = Some("abc")
     /\ resp[3].action = "stopCapture" /\ resp[3].st = "ok")
    => /\ resp[3].audio # None
       /\ Len(resp[3].audio[1]) = 44 + 2500
       /\ resp[3].hasData = "true"

RECURSIVE ContainsInOrder(_, _)
\* The chunks occur in the bytes, whole, one after the other in their order.
ContainsInOrder(bytes, chunks) ==
    \/ chunks = <<>>
    \/ \E i \in 1..(Len(bytes) - Len(Head(chunks)) + 1) :
          /\ SubSeq(bytes, i, i + Len(Head(chunks)) - 1) = Head(chunks)
          /\ ContainsInOrder(SubSeq(bytes, i + Len(Head(chunks)), Len(bytes)),
                             Tail(chunks))

\* This step is the stopCapture command c, arriving while recorder r is
\* Capturing.
StopWhileCapturingStep(c, r) ==
    /\ resp[c].st = "unused"
    /\ resp'[c].action = "stopCapture"
    /\ CapturingNow = r

\* C26: a stopCapture that arrives while recorder r is Capturing queues the
\* flush (requestData) ahead of the last data and the stop event of stop();
\* it is answered only when the stop event of r has fired; and its answer
\* is a success whose audio contains every chunk r has delivered up to then,
\* in order, unless a clearRecording has discarded the recording since.
C26_StopHandshake ==
    [][ \A c \in CmdIds :
          /\ \A r \in CmdIds :
                StopWhileCapturingStep(c, r)
                => recorders'[r].events =
                       recorders[r].events \o <<"dataavailable", "dataavailable", "stop">>
          /\ (resp[c].action = "stopCapture" /\ resp[c].during # 0 /\ AnsweredNow(c))
             => LET r == resp[c].during
                IN /\ recorders[r].state = "inactive"
                   /\ "stop" \notin Range(recorders[r].events)
                   /\ resp'[c].st = "ok"
                   /\ (/\ recorders[r].delivered # <<>>
                       /\ \A k \in CmdIds :
                             k > c => resp[k].action # "clearRecording")
                        => /\ resp'[c].audio # None
                           /\ ContainsInOrder(resp'[c].audio[1], recorders[r].delivered)
      ]_vars

\* No command has ended or reset a session so far and none has added a
\* chunk from outside: the session that is Capturing is the first one and
\* its chunks are those of the recorder's data callbacks.
FirstSession ==
    \A c \in CmdIds :
        resp[c].action \notin {"stopCapture", "clearRecording", "restart",
                               "addRecordingChunk"}

\* No snapshot write is on its way in the state after this step.
NoWritePendingAfter == \A t \in hostTasks' : t.kind # "arrayBuffer.persist"

\* C27: while the first session is Capturing, when the store takes a
\* snapshot write and no other snapshot write is on its way, the stored
\* recordingChunks is the whole chunk sequence in memory: the last write to
\* land is the newest snapshot.
C27_SnapshotsInCallbackOrder ==
    [][ \A t \in hostTasks :
          (/\ SnapshotWriteStep(t)
           /\ storage'.recordingChunks = Some(t.data)
           /\ CapturingNow # 0
           /\ FirstSession
           /\ NoWritePendingAfter)
          => storage'.recordingChunks = Some(ChunksArray(recordingChunks'))
      ]_vars

\* Sequence p is a prefix of sequence q.
IsPrefix(p, q) == Len(p) <= Len(q) /\ SubSeq(q, 1, Len(p)) = p

\* C28: in every state the stored recordingChunks, when present, is a prefix
\* of the chunk sequence in memory, each chunk whole and in its place, so it
\* holds no chunk of a session that is over (chunks come from the recorder
\* only: no addRecordingChunk command has arrived).
C28_StoredSnapshotOfCurrentSession ==
    (/\ storage.recordingChunks # None
     /\ \A c \in CmdIds : resp[c].action # "addRecordingChunk")
    => IsPrefix(storage.recordingChunks[1], ChunksArray(recordingChunks))

\* This step is a data callback of recorder r with a non-empty payload.
DeliveryStep(r) == Len(recorders'[r].delivered) = Len(recorders[r].delivered) + 1

\* This step is a data callback of recorder r, fired from its event queue,
\* with an empty payload.
EmptyDeliveryStep(r) ==
    /\ recorders[r].events # <<>>
    /\ Head(recorders[r].events) = "dataavailable"
    /\ recorders'[r].events = Tail(recorders[r].events)
    /\ recorders'[r].delivered = recorders[r].delivered

\* C29: a data callback with a non-empty payload puts exactly that chunk, a
\* blob of the payload's bytes, at the end of the chunks in memory, leaving
\* the chunks before it as they were, starts a write of the whole sequence
\* then in memory and does not touch the store itself; the write, when the
\* store takes it, replaces recordingChunks by that sequence and changes no
\* other key; a data callback with an empty payload changes neither the
\* chunks in memory nor the store nor what is pending.
C29_AppendOnlyDataCallback ==
    [][ /\ \A r \in CmdIds :
            /\ DeliveryStep(r)
               => LET payload == recorders'[r].delivered[Len(recorders'[r].delivered)]
                  IN /\ Len(payload) > 0
                     /\ Len(recordingChunks') = Len(recordingChunks) + 1
                     /\ SubSeq(recordingChunks', 1, Len(recordingChunks)) = recordingChunks
                     /\ recordingChunks'[Len(recordingChunks')].bytes = payload
                     /\ \E t \in hostTasks' \ hostTasks :
                           /\ hostTasks' = hostTasks \cup {t}
                           /\ t.kind = "arrayBuffer.persist"
                           /\ t.data = ChunksArray(recordingChunks')
                     /\ storage' = storage
            /\ EmptyDeliveryStep(r)
               => UNCHANGED <<recordingChunks, storage, hostTasks, storageQ>>
        /\ \A t \in hostTasks :
             (SnapshotWriteStep(t) /\ storage' # storage)
             => storage' = [storage EXCEPT !.recordingChunks = Some(t.data)]
      ]_vars

\* C29 witness: recorder 1 is Capturing and has delivered <<2>> and then
\* <<1>>; both are in memory in that order, the write of the first snapshot
\* has landed and the write of the whole sequence is on its way.
C29_Witness ==
    /\ Capturing(1)
    /\ recorders[1].delivered = << <<2>>, <<1>> >>
    /\ ChunksArray(recordingChunks) = << <<2>>, <<1>> >>
    /\ storage.recordingChunks = Some(<< <<2>> >>)
    /\ HostTask("arrayBuffer.persist", 0, << <<2>>, <<1>> >>) \in hostTasks

\* C30: the answer of a getRecordingState command carries isRecording true
\* when the session has been started with success and not stopped or
\* cleared (the isRecording flag of the script is set) both when the command
\* arrived and when it is answered, and isRecording false when the session
\* is Idle (the flag is not set) at the answer.
C30_ReportsCapturing ==
    [][ \A c \in CmdIds :
          (resp[c].action = "getRecordingState" /\ AnsweredNow(c))
          => /\ (resp[c].flag /\ isRecording) => resp'[c].isRecording = "true"
             /\ ~isRecording => resp'[c].isRecording = "false"
      ]_vars

\* Command c arrives in this step.
ArrivesNow(c) == resp[c].st = "unused" /\ resp'[c].st # "unused"

\* C31: getRecordingData reads and changes nothing.  With no chunk in memory
\* when it arrives it is answered at once with hasData false and no bytes;
\* with chunks in memory it is answered with hasData true and the
\* concatenation of the chunks that are in memory when its preferences
\* callback builds the blob.  None of its steps (arrival, callback, answer)
\* changes isRecording, the chunks, the recorder, the stream or the store.
C31_GetRecordingDataReadOnly ==
    [][ \A c \in CmdIds :
          /\ (ArrivesNow(c) /\ resp'[c].action = "getRecordingData")
             => /\ UNCHANGED <<session, storage>>
                /\ Len(recordingChunks) = 0
                   => /\ resp'[c].st = "ok"
                      /\ resp'[c].hasData = "false"
                      /\ resp'[c].audio = None
                /\ Len(recordingChunks) > 0 => resp'[c].st = "pending"
          /\ (CallbackOf("getRecordingData.preferences") /\ Head(storageQ).cmd = c)
             => /\ UNCHANGED <<session, storage>>
                /\ resp[c].st = "pending"
                   => HostTask("arrayBuffer.respond", c,
                               Some(ConcatBytes(recordingChunks))) \in hostTasks'
          /\ (resp[c].action = "getRecordingData" /\ resp[c].st = "pending"
                 /\ AnsweredNow(c))
             => /\ UNCHANGED <<session, storage>>
                /\ resp'[c].st = "ok"
                /\ resp'[c].hasData = "true"
                /\ HostTask("arrayBuffer.respond", c, resp'[c].audio) \in hostTasks
      ]_vars

\* C31 witness: getRecordingData was answered with the bytes <<2>> of a
\* running session and the stopCapture after it returned the same bytes.
C31_Witness ==
    /\ resp[2].action = "getRecordingData"
    /\ resp[2].st = "ok"
    /\ resp[2].hasData = "true"
    /\ resp[2].audio = Some(<<2>>)
    /\ resp[3].action = "stopCapture"
    /\ resp[3].st = "ok"
    /\ resp[3].audio = Some(<<2>>)

\* mediaRecorder && isRecording is false: handleStopCapture takes the path
\* for no active recorder.
NoActiveRecorder == ~(mediaRecorder # 0 /\ isRecording)

\* The four recording keys of the store after this step are absent.
RecordingKeysRemoved == storage' = RemoveRecordingKeys(storage')

\* C32: a stopCapture that arrives while no recorder is active (the script
\* has no recorder, or its flag is not set) is answered with success.  With
\* no chunk in memory at its arrival it is answered at once with null; with
\* chunks in memory it reads the preferences, and the callback of that read
\* hands over the concatenation of the chunks then in memory, which is what
\* the answer carries.  The step that produces the result (the arrival in the
\* first case, the callback in the second) leaves isRecording false, the
\* chunks in memory empty and the four recording keys absent.
C32_IdleStop ==
    [][ \A c \in CmdIds :
          /\ (ArrivesNow(c) /\ resp'[c].action = "stopCapture" /\ NoActiveRecorder)
             => /\ Len(recordingChunks) = 0
                   => /\ resp'[c].st = "ok"
                      /\ resp'[c].audio = None
                      /\ ~isRecording'
                      /\ recordingChunks' = <<>>
                      /\ RecordingKeysRemoved
                /\ Len(recordingChunks) > 0
                   => /\ resp'[c].st = "pending"
                      /\ storageQ' # <<>>
                      /\ storageQ'[Len(storageQ')].kind = "stopIdle.preferences"
                      /\ storageQ'[Len(storageQ')].cmd = c
          /\ (CallbackOf("stopIdle.preferences") /\ Head(storageQ).cmd = c)
             => /\ resp[c].st = "pending"
                   => HostTask("arrayBuffer.respond", c,
                               Some(ConcatBytes(recordingChunks))) \in hostTasks'
                /\ ~isRecording'
                /\ recordingChunks' = <<>>
                /\ RecordingKeysRemoved
          /\ \A t \in hostTasks \ hostTasks' :
               (t.kind = "arrayBuffer.respond" /\ t.cmd = c
                  /\ resp[c].action = "stopCapture" /\ AnsweredNow(c))
               => /\ resp'[c].st = "ok"
                  /\ resp'[c].audio = t.data
      ]_vars

\* C32 witness: with the chunk [258, 1] of the popup in memory and no
\* recorder, a stopCapture has returned the bytes <<2, 1>> and the
\* stopCapture after it null; the flag is not set, no chunk is in memory and
\* none of the four keys is stored.
C32_Witness ==
    /\ resp[1].action = "addRecordingChunk"
    /\ resp[2].action = "stopCapture"
    /\ resp[2].st = "ok"
    /\ resp[2].audio = Some(<<2, 1>>)
    /\ resp[3].action = "stopCapture"
    /\ resp[3].st = "ok"
    /\ resp[3].audio = None
    /\ ~isRecording
    /\ recordingChunks = <<>>
    /\ RecordingKeysAbsent

\* The process is suspended in this step, as external event c.
SuspendStep(c) == ArrivesNow(c) /\ resp'[c].action = "suspend"

\* C33: the suspension of the process while a recorder is Capturing does
\* what a stop does, short of a result: after the onSuspend listener the
\* recorder is not running, the tracks of the stream are ended, no chunk is
\* in memory, the four recording keys are absent from the store, the flag is
\* not set and the script holds no recorder; no stop result is built and no
\* command is answered with audio.
C33_SuspendReleases ==
    [][ \A c \in CmdIds :
          (SuspendStep(c) /\ CapturingNow # 0)
          => /\ recorders'[mediaRecorder].state # "recording"
             /\ currentStream # 0 => streams'[currentStream] = "ended"
             /\ recordingChunks' = <<>>
             /\ RecordingKeysRemoved
             /\ ~isRecording'
             /\ mediaRecorder' = 0
             /\ hostTasks' = hostTasks
             /\ \A d \in CmdIds : resp'[d].audio = resp[d].audio
      ]_vars

\* Recorder r reports an error in this step, as external event e.
ErrorStep(e, r) ==
    ArrivesNow(e) /\ resp'[e].action = "error" /\ resp'[e].arg = Some(r)

\* Recorder r has reported an error.
HadError(r) ==
    \E e \in CmdIds : resp[e].action = "error" /\ resp[e].arg = Some(r)

\* C34: an error of the recorder that is Capturing changes nothing: the
\* flag, the script's recorder and stream, the chunks in memory and the store
\* are as before, the recorder is still running and the stream live, so the
\* session is still Capturing; and a stopCapture that arrives after the
\* error, while the script still holds that recorder, has something in
\* flight that will answer it with the chunks.
C34_RecorderErrorNonFatal ==
    [][ \A r \in CmdIds :
          /\ \A e \in CmdIds :
                (ErrorStep(e, r) /\ Capturing(r))
                => /\ UNCHANGED <<isRecording, recordingChunks, mediaRecorder,
                                  currentStream, streams, storage>>
                   /\ recorders'[r] = recorders[r]
                   /\ Capturing(r)'
          /\ \A c \in CmdIds :
                (/\ HadError(r)
                 /\ ArrivesNow(c)
                 /\ resp'[c].action = "stopCapture"
                 /\ isRecording /\ mediaRecorder = r)
                => (resp'[c].st = "pending" /\ HasContinuation(c)')
      ]_vars

\* The 50 ms timer of a stop fires in this step.
NullStreamTimerStep ==
    /\ nCmds' = nCmds
    /\ \E t \in hostTasks \ hostTasks' : t.kind = "timer.nullStream"

\* C35: the timer that a stop sets to drop the stream reference drops only
\* the stream whose tracks that stop has ended, never the live stream of a
\* session started since: when it fires, currentStream is null or a stream
\* that is ended, and a session that is Capturing with its own stream in
\* currentStream still has it there afterwards.
C35_DeferredReleaseKeepsNewStream ==
    [][ NullStreamTimerStep
        => /\ currentStream # 0 => streams[currentStream] = "ended"
           /\ \A r \in CmdIds :
                (Capturing(r) /\ currentStream = r) => currentStream' = r
      ]_vars

\* The stream id granted to command c at the attempt that succeeded.
OwnToken(c) == GrantedToken(c, Len(acq[c].outcomes))

\* C36: with startCapture commands in progress at the same time, every
\* read-back that a command has queued carries the stream id granted to that
\* command (the read was issued after the command's own write), and every
\* answer with success carries the stream id granted to the command it
\* answers and no stream id granted to another command.
C36_OwnTokenUnderOverlap ==
    /\ \A i \in 1..Len(storageQ) :
          storageQ[i].kind = "startCapture.get"
          => storageQ[i].read.recordingStreamId = Some(OwnToken(storageQ[i].cmd))
    /\ \A c \in CmdIds :
          (resp[c].action = "startCapture" /\ resp[c].st = "ok")
          => /\ resp[c].streamId = Some(OwnToken(c))
             /\ \A d \in CmdIds \ {c} : \A k \in 1..2 :
                   resp[c].streamId # Some(GrantedToken(d, k))

\* C36 witness: two captures of tab 42 overlap; the first has been answered
\* with its own stream id while the store holds the stream id granted to the
\* second, whose read-back is still queued.
C36_Witness ==
    /\ acq[1].tab = 42
    /\ acq[2].tab = 42
    /\ resp[1].st = "ok"
    /\ resp[1].streamId = Some("abc")
    /\ storage.recordingStreamId = Some("b1")
    /\ resp[2].st = "pending"
    /\ Len(storageQ) = 1
    /\ storageQ[1].cmd = 2

\* The legacy recording rec is in the object store of IndexedDB.
InIndexedDB(rec) == mig.db[rec.id] = Some(MigratedRecord(rec))

\* The legacy recording rec is still under savedRecordings.
StillSaved(rec) ==
    mig.saved # None /\ \E i \in 1..Len(mig.saved[1]) : mig.saved[1][i] = rec

\* C37: when migrateFromChromeStorage has resolved and nothing but the
\* migration has called the store, every recording that was under
\* savedRecordings is in IndexedDB, with its id and its bytes, or is still
\* under savedRecordings, whether or not some save failed; and the number it
\* resolves with is the number of recordings that are in IndexedDB.
C37_MigrationLosesNothing ==
    (mig.phase = "resolved" /\ mig.calls = 0)
    => /\ \A i \in 1..Len(mig.list) :
             InIndexedDB(mig.list[i]) \/ StillSaved(mig.list[i])
       /\ mig.result =
             Some(Cardinality({id \in DOMAIN mig.db : mig.db[id] # None}))

\* C38: for every decoded buffer the two encoders give the same bytes: what
\* the encoder that ran has returned is what convertToWav gives for the
\* buffer and what blobToWav gives for it, header and samples.
C38_EncodersAgree ==
    wav.phase = "encoded"
    => /\ wav.out = ConvertToWav(wav.input)
       /\ wav.out = BlobToWav(wav.input)
       /\ SubSeq(ConvertToWav(wav.input), 1, 44) = BlobToWavHeader(wav.input)

\* C38 witness: blobToWav has encoded two frames of two channels, with a
\* sample below -1, the sample 1, the float next below 1 and the one next
\* below 0; its 52 bytes are those of convertToWav, and the samples are
\* -32768, 32766, 32767 and 0 in little-endian order.
C38_Witness ==
    /\ wav.phase = "encoded"
    /\ wav.by = "blobToWav"
    /\ wav.input.channels = << <<-98304, 65536>>, <<65535, -1>> >>
    /\ Len(wav.out) = 52
    /\ wav.out = ConvertToWav(wav.input)
    /\ SubSeq(wav.out, 45, 52) = <<0, 128, 254, 127, 255, 127, 0, 0>>

====
